---- MODULE Spec2Model ----
(***************************************************************************)
(* Scheduling core of the field-service backend (backend/jobs/utils.py):   *)
(* the nearest-neighbour route optimizer, the technician suggestion and    *)
(* the time-slot suggestion, over a store of Job and Technician records.   *)
(*                                                                         *)
(* Units.  A coordinate is an integer number of 1/10000 degree, a distance *)
(* an integer number of 1/1000 mile, a duration in hours an integer number *)
(* of 1/100 hour (the DecimalField's two places), a time of day an integer *)
(* number of seconds since 00:00.  A nullable field holds <<>> (None) or   *)
(* <<v>>.  A list of Job objects is the list of their ids.                 *)
(*                                                                         *)
(* With it the cache utilities (backend/fsm_core/cache_utils.py) and the   *)
(* request middleware (backend/fsm_core/middleware.py), over the Django    *)
(* caches and a clock.                                                     *)
(***************************************************************************)
EXTENDS Integers, Sequences, FiniteSets, TLC

VARIABLES
    jobs,             \* the Job table, in Meta ordering (-created_at): newest first
    technicians,      \* the Technician table, in Meta ordering (query order)
    pc,               \* where the call in progress stands
    optimized_route,  \* _nearest_neighbor_route: the route built so far (job ids)
    remaining_jobs,   \* _nearest_neighbor_route: the jobs not yet routed (job ids)
    current_pos,      \* _nearest_neighbor_route: <<current_lat, current_lng>>
    call,             \* the arguments of the call in progress
    result,           \* the value the last call returned
    caches,           \* django.core.cache.caches: alias -> key -> value and expiry
    now,              \* time.time(), in seconds
    log,              \* what the calls made so far were given and returned
    status_history,   \* the JobStatusHistory table, in creation order
    conflicts         \* the ScheduleConflict table, in creation order

core == <<jobs, technicians, pc, optimized_route, remaining_jobs, current_pos, call, result>>
tables == <<status_history, conflicts>>
web == <<caches, now, log, tables>>
vars == <<core, web>>

\* ---------------------------------------------------------------- bounds
MaxJobs == 3
MaxTechs == 6

\* ------------------------------------------------------- optional values
None == <<>>
Some(v) == <<v>>
\* Python truthiness of a nullable number: None and 0 are false.
Truthy(x) == x # None /\ x[1] # 0
\* Python's `x or d` on a nullable number.
OrElse(x, d) == IF Truthy(x) THEN x[1] ELSE d

Abs(x) == IF x < 0 THEN -x ELSE x
Min2(a, b) == IF a <= b THEN a ELSE b
Max2(a, b) == IF a >= b THEN a ELSE b

\* --------------------------------------------------------------- distance
\* 39.9526 and -75.1652 degrees, the default start of RouteOptimizer.
DEFAULT_START_LAT == 399526
DEFAULT_START_LNG == -751652
AVG_SPEED_MPH == 35

Deg(d) == d * 10000
CentiDeg(c) == c * 100

\* calculate_distance evaluated (the haversine formula of the source, radius
\* 3956 miles, rounded to 1/1000 mile) at the coordinates of this model.  The
\* formula depends on the two latitudes, symmetrically, and on |lng2 - lng1|
\* only; the key is <<smaller latitude, larger latitude, |dlng|>>.
HaversineTable ==
    <<0, 500, 0>> :> 3452 @@
    <<500, 1000, 0>> :> 3452 @@
    <<500, 2000, 0>> :> 10357 @@
    <<500, 10000, 0>> :> 65593 @@
    <<0, 10000, 0>> :> 69045 @@
    <<0, 10000, 10000>> :> 97642 @@
    <<0, 20000, 0>> :> 138090 @@
    <<0, 20000, 10000>> :> 154384 @@
    <<0, 399526, 0>> :> 2758536 @@
    <<0, 399526, 10000>> :> 2759255 @@
    <<0, 399526, 761652>> :> 5484788 @@
    <<0, 399526, 771652>> :> 5537113 @@
    <<10000, 10000, 0>> :> 0 @@
    <<10000, 10000, 10000>> :> 69035 @@
    <<10000, 10000, 761652>> :> 5257899 @@
    <<10000, 10000, 771652>> :> 5326927 @@
    <<10000, 20000, 0>> :> 69045 @@
    <<10000, 20000, 10000>> :> 97627 @@
    <<10000, 20000, 761652>> :> 5257104 @@
    <<10000, 20000, 771652>> :> 5326103 @@
    <<10000, 399526, 0>> :> 2689491 @@
    <<10000, 399526, 10000>> :> 2690226 @@
    <<10000, 399526, 761652>> :> 5439752 @@
    <<10000, 399526, 771652>> :> 5492179 @@
    <<20000, 20000, 0>> :> 0 @@
    <<20000, 20000, 10000>> :> 69003 @@
    <<20000, 20000, 761652>> :> 5255067 @@
    <<20000, 20000, 771652>> :> 5324044 @@
    <<20000, 399526, 0>> :> 2620446 @@
    <<20000, 399526, 10000>> :> 2621196 @@
    <<20000, 399526, 761652>> :> 5394853 @@
    <<20000, 399526, 771652>> :> 5447374 @@
    <<399526, 399526, 0>> :> 0 @@
    <<399526, 399526, 10000>> :> 52928 @@
    <<399526, 399526, 761652>> :> 3896583 @@
    <<399526, 399526, 771652>> :> 3943776

calculate_distance(lat1, lng1, lat2, lng2) ==
    HaversineTable[<<Min2(lat1, lat2), Max2(lat1, lat2), Abs(lng2 - lng1)>>]

\* estimate_travel_time: hours = distance / avg_speed, here in whole seconds.
estimate_travel_time(distance) == (distance * 36) \div (AVG_SPEED_MPH * 10)

\* ----------------------------------------------------------------- records
Statuses == {"scheduled", "in_progress", "completed"}
ActiveStatuses == {"scheduled", "in_progress"}
SkillLevels == {"apprentice", "journeyman", "master"}

\* The technician whose route and time slots are asked for, and another one.
TheTechnician == 1
OtherTechnician == 2

NewJob(id, status, priority, service_type, lat, lng, start, end, ai, tech) ==
    [id |-> id, status |-> status, priority |-> priority,
     service_type |-> service_type,
     latitude |-> lat, longitude |-> lng,
     scheduled_start_time |-> start, scheduled_end_time |-> end,
     ai_suggested_duration |-> ai,
     assigned_technician |-> tech]

\* `if job.property.latitude and job.property.longitude`
HasCoordinates(job) == Truthy(job.latitude) /\ Truthy(job.longitude)

\* Job.objects.filter(assigned_technician=technician, scheduled_date=date,
\*                    status__in=['scheduled', 'in_progress'])
\* The table holds the jobs of the date asked for.
JobsOfTechnician(tech_id) ==
    SelectSeq(jobs, LAMBDA j : j.assigned_technician = Some(tech_id)
                               /\ j.status \in ActiveStatuses)

\* A list of Job objects is held as the list of their ids; JobOf reads the
\* object behind an id.
Ids(js) == [i \in 1..Len(js) |-> js[i].id]
JobOf(id) == jobs[CHOOSE i \in 1..Len(jobs) : jobs[i].id = id]

\* technician.current_location_lat or self.start_lat (and likewise lng)
StartPoint(tech) ==
    <<OrElse(tech.current_location_lat, DEFAULT_START_LAT),
      OrElse(tech.current_location_lng, DEFAULT_START_LNG)>>

NewTechnician(id, skill, avail, emerg, specs, lat, lng) ==
    [id |-> id, skill_level |-> skill, is_available |-> avail,
     emergency_availability |-> emerg, specialties |-> specs,
     current_location_lat |-> lat, current_location_lng |-> lng]

NoCall == [op |-> "none"]

\* ------------------------------------------------------------ the caches
\* A cache is a function from the keys it holds to [value, expires]; an entry
\* is live while now < expires (LocMemCache._has_expired).
EmptyCache == <<>>

Live(store, key) == key \in DOMAIN store /\ now < store[key].expires

\* cache.get(key, default)
CacheGet(store, key, default) ==
    IF Live(store, key) THEN store[key].value ELSE default

\* cache.set(key, value, timeout)
CacheSet(store, key, value, timeout) ==
    (key :> [value |-> value, expires |-> now + timeout]) @@ store

WebInit ==
    /\ caches = [default |-> EmptyCache, rate_limit |-> EmptyCache]
    /\ now = 0
    /\ log = <<>>
    /\ status_history = <<>>
    /\ conflicts = <<>>

\* The caches empty and no job or technician stored.
WebOnlyInit ==
    /\ jobs = <<>>
    /\ technicians = <<>>
    /\ pc = "idle"
    /\ optimized_route = <<>>
    /\ remaining_jobs = <<>>
    /\ current_pos = <<DEFAULT_START_LAT, DEFAULT_START_LNG>>
    /\ call = NoCall
    /\ result = NoCall
    /\ WebInit

\* The bounds of the runs: the calls made and the clock ticks taken.
MaxCalls == 5
MaxTicks == 3

TICK_SECONDS == 30

\* Time passes between two calls.
Tick ==
    /\ now < MaxTicks * TICK_SECONDS
    /\ now' = now + TICK_SECONDS
    /\ UNCHANGED <<core, caches, log, tables>>

\* --------------------------------------------- RateLimitCache (cache_utils)
\* f"rate_limit_{identifier}_{window}s": the window is an integer, so the key
\* determines the identifier and the window.
get_rate_limit_key(identifier, window) == <<"rate_limit", identifier, window>>

\* A counter that may pass the limit by one.
LimitReachedLate(current_count, limit) == current_count > limit

LimitReached(current_count, limit) == current_count >= limit

\* check_rate_limit(identifier, limit, window), the cache answering every
\* get and set.
CheckRateLimit(identifier, limit, window) ==
    /\ Len(log) < MaxCalls
    /\ LET cache_key == get_rate_limit_key(identifier, window)
           rate_cache == caches.rate_limit
           current_count == CacheGet(rate_cache, cache_key, 0)
           new_count == CacheGet(rate_cache, cache_key, 0) + 1
           entry == [op |-> "check_rate_limit", identifier |-> identifier,
                     limit |-> limit, window |-> window, time |-> now,
                     count_before |-> current_count]
       IN IF LimitReached(current_count, limit)
          THEN /\ log' = Append(log, entry @@ [allowed |-> FALSE, remaining |-> 0,
                                               count_after |-> current_count])
               /\ UNCHANGED caches
          ELSE /\ caches' = [caches EXCEPT !.rate_limit =
                                CacheSet(rate_cache, cache_key, new_count, window)]
               /\ log' = Append(log, entry @@ [allowed |-> TRUE,
                                               remaining |-> limit - new_count,
                                               count_after |-> new_count])
    /\ UNCHANGED <<core, now, tables>>

\* ---- sequential calls for two identifiers, time passing between them
RateIdentifiers == {"test_user", "other_user"}
RateLimits == { <<2, 60>>, <<3, 30>> }

RateCall ==
    \E identifier \in RateIdentifiers, lw \in RateLimits :
        CheckRateLimit(identifier, lw[1], lw[2])

RateNext ==
    \/ RateCall
    \/ Tick

RateSpec == WebOnlyInit /\ [][RateNext]_vars

\* ---- calls of check_rate_limit by several request threads, interleaved:
\* pc[t] is the line thread t stands before, call[t] its arguments and locals.
\* Each cache.get and cache.set is one step (LocMemCache takes its lock per
\* operation); other threads may run between any two of them.
MaxThreads == 2
Threads == 1..MaxThreads

InFlight == { t \in Threads : pc[t] # "idle" }

\* A thread enters check_rate_limit(identifier, limit, window).
BeginCheck(t, identifier, limit, window) ==
    /\ pc[t] = "idle"
    /\ Len(log) + Cardinality(InFlight) < MaxCalls
    /\ pc' = [pc EXCEPT ![t] = "get_count"]
    /\ call' = [call EXCEPT ![t] =
                   [op |-> "check_rate_limit", identifier |-> identifier,
                    limit |-> limit, window |-> window,
                    cache_key |-> get_rate_limit_key(identifier, window)]]
    /\ UNCHANGED <<jobs, technicians, optimized_route, remaining_jobs, current_pos,
                   result, web>>

LogEntry(frame, allowed, remaining, count_after) ==
    [op |-> "check_rate_limit", identifier |-> frame.identifier,
     limit |-> frame.limit, window |-> frame.window, time |-> now,
     count_before |-> frame.current_count,
     allowed |-> allowed, remaining |-> remaining, count_after |-> count_after]

\* current_count = rate_cache.get(cache_key, 0) and the test against the
\* limit; a refused call returns (False, 0) here.
GetCount(t) ==
    /\ pc[t] = "get_count"
    /\ LET current_count == CacheGet(caches.rate_limit, call[t].cache_key, 0)
           frame == call[t] @@ [current_count |-> current_count]
       IN IF LimitReached(current_count, frame.limit)
          THEN /\ log' = Append(log, LogEntry(frame, FALSE, 0, current_count))
               /\ pc' = [pc EXCEPT ![t] = "idle"]
               /\ call' = [call EXCEPT ![t] = NoCall]
          ELSE /\ pc' = [pc EXCEPT ![t] = "get_again"]
               /\ call' = [call EXCEPT ![t] = frame]
               /\ UNCHANGED log
    /\ UNCHANGED <<jobs, technicians, optimized_route, remaining_jobs, current_pos,
                   result, caches, now, tables>>

\* new_count = rate_cache.get(cache_key, 0) + 1
GetAgain(t) ==
    /\ pc[t] = "get_again"
    /\ call' = [call EXCEPT ![t] =
                   call[t] @@ [new_count |->
                       CacheGet(caches.rate_limit, call[t].cache_key, 0) + 1]]
    /\ pc' = [pc EXCEPT ![t] = "set_count"]
    /\ UNCHANGED <<jobs, technicians, optimized_route, remaining_jobs, current_pos,
                   result, web>>

\* rate_cache.set(cache_key, new_count, window) and return
\* (True, limit - new_count).
SetCount(t) ==
    /\ pc[t] = "set_count"
    /\ caches' = [caches EXCEPT !.rate_limit =
                     CacheSet(caches.rate_limit, call[t].cache_key,
                              call[t].new_count, call[t].window)]
    /\ log' = Append(log, LogEntry(call[t], TRUE, call[t].limit - call[t].new_count,
                                   call[t].new_count))
    /\ pc' = [pc EXCEPT ![t] = "idle"]
    /\ call' = [call EXCEPT ![t] = NoCall]
    /\ UNCHANGED <<jobs, technicians, optimized_route, remaining_jobs, current_pos,
                   result, now, tables>>

RaceNext ==
    \/ \E t \in Threads, lw \in RateLimits : BeginCheck(t, "test_user", lw[1], lw[2])
    \/ \E t \in Threads : GetCount(t)
    \/ \E t \in Threads : GetAgain(t)
    \/ \E t \in Threads : SetCount(t)

\* Every thread idle, the caches empty.
RaceInit ==
    /\ jobs = <<>>
    /\ technicians = <<>>
    /\ pc = [t \in Threads |-> "idle"]
    /\ optimized_route = <<>>
    /\ remaining_jobs = <<>>
    /\ current_pos = <<DEFAULT_START_LAT, DEFAULT_START_LNG>>
    /\ call = [t \in Threads |-> NoCall]
    /\ result = NoCall
    /\ WebInit

RaceSpec == RaceInit /\ [][RaceNext]_vars

\* ------------------------------------------------ cache_function (cache_utils)
\* A Python value passed as an argument: its type and the text str() gives,
\* the text held as the pieces between its underscores ("a_b" is <<"a", "b">>).
IntValue(digits) == [type |-> "int", str |-> <<digits>>]
StrValue(pieces) == [type |-> "str", str |-> pieces]

\* "_".join of texts: the pieces of the parts, one after the other.
RECURSIVE Join(_)
Join(parts) ==
    IF parts = <<>> THEN <<>> ELSE Head(parts) \o Join(Tail(parts))

\* cache_key_builder(*args) for arguments without pk and a key of at most
\* 200 characters.
cache_key_builder(args) == Join([i \in 1..Len(args) |-> args[i].str])

\* f"{key_prefix}_{func.__name__}_{cache_key_builder(*args)}"
FunctionCacheKey(args) == <<"func", "expensive_function">> \o cache_key_builder(args)

\* The timeout the function is decorated with.
FUNC_TIMEOUT == 60

\* The wrapped function: a lookup that finds nothing for (0, 0) and returns
\* None, and otherwise returns a value its arguments determine.
func(args) ==
    IF args = <<IntValue("0"), IntValue("0")>> THEN None ELSE Some([result_of |-> args])

\* wrapper(*args) of cache_function: the cached result when the cache has one
\* that is not None, else the function's result, stored under the key.
CachedCall(args) ==
    /\ Len(log) < MaxCalls
    /\ LET cache_key == FunctionCacheKey(args)
           cached_result == CacheGet(caches.default, cache_key, None)
           entry == [op |-> "cache_function", args |-> args, time |-> now]
       IN IF cached_result # None
          THEN /\ log' = Append(log, entry @@ [ran |-> FALSE, value |-> cached_result])
               /\ UNCHANGED caches
          ELSE LET func_result == func(args) IN
               /\ caches' = [caches EXCEPT !.default =
                                CacheSet(caches.default, cache_key, func_result, FUNC_TIMEOUT)]
               /\ log' = Append(log, entry @@ [ran |-> TRUE, value |-> func_result])
    /\ UNCHANGED <<core, now, tables>>

\* ---- calls with integers, with strings of the same text, and with (0, 0)
FunctionArguments ==
    { <<IntValue("1"), IntValue("2")>>, <<IntValue("2"), IntValue("3")>>, <<StrValue(<<"1">>), StrValue(<<"2">>)>>,
      <<IntValue("0"), IntValue("0")>> }

FunctionCall == \E args \in FunctionArguments : CachedCall(args)

FunctionNext ==
    \/ FunctionCall
    \/ Tick

FunctionSpec == WebOnlyInit /\ [][FunctionNext]_vars

\* ------------------------------------------------- requests (middleware)
\* A path is the sequence of its segments, "/api/auth/login/" being
\* <<"api", "auth", "login">>; startswith compares leading segments.
StartsWith(path, prefix) ==
    Len(path) >= Len(prefix) /\ SubSeq(path, 1, Len(prefix)) = prefix

\* An HTTP request: path, method, the two META entries get_client_ip reads,
\* and request.user (None for AnonymousUser).
NewRequest(path, method, remote_addr, x_forwarded_for, user) ==
    [path |-> path, method |-> method, REMOTE_ADDR |-> remote_addr,
     HTTP_X_FORWARDED_FOR |-> x_forwarded_for, user |-> user]

\* ---------------------------------------------------- RateLimitMiddleware
AUTH_RATE_LIMIT == 5
API_RATE_LIMIT == 100
RATE_WINDOW == 60
HTTP_429_TOO_MANY_REQUESTS == 429

\* The first address of X-Forwarded-For when the header is there and not
\* empty, REMOTE_ADDR otherwise.
get_client_ip(request) ==
    IF request.HTTP_X_FORWARDED_FOR # <<>>
    THEN request.HTTP_X_FORWARDED_FOR[1]
    ELSE request.REMOTE_ADDR

RateLimitFor(request) ==
    IF StartsWith(request.path, <<"api", "auth">>)
    THEN AUTH_RATE_LIMIT
    ELSE API_RATE_LIMIT

\* f'rate_limit:{ip}:{request.path_info.split("/")[1]}'
RateLimitKey(ip, request) == <<"rate_limit", ip, request.path[1]>>

\* The bound of the runs: the requests made.
MaxRequests == 6

\* RateLimitMiddleware.process_request(request), the cache answering every
\* get and set; the response is None (passed on) or the status of the
\* JsonResponse.
RateLimitProcessRequest(request) ==
    /\ Len(log) < MaxRequests
    /\ LET ip == get_client_ip(request)
           entry == [op |-> "RateLimitMiddleware", ip |-> ip, request |-> request,
                     time |-> now]
       IN IF StartsWith(request.path, <<"admin">>) \/ StartsWith(request.path, <<"static">>)
          THEN /\ log' = Append(log, entry @@ [response |-> None, count_before |-> 0,
                                               count_after |-> 0])
               /\ UNCHANGED caches
          ELSE LET limit == RateLimitFor(request)
                   cache_key == RateLimitKey(ip, request)
                   current_requests == CacheGet(caches.default, cache_key, 0)
               IN IF current_requests >= limit
                  THEN /\ log' = Append(log, entry @@
                                   [response |-> Some(HTTP_429_TOO_MANY_REQUESTS),
                                    count_before |-> current_requests,
                                    count_after |-> current_requests])
                       /\ UNCHANGED caches
                  ELSE /\ caches' = [caches EXCEPT !.default =
                                        CacheSet(caches.default, cache_key,
                                                 current_requests + 1, RATE_WINDOW)]
                       /\ log' = Append(log, entry @@
                                   [response |-> None,
                                    count_before |-> current_requests,
                                    count_after |-> current_requests + 1])
    /\ UNCHANGED <<core, now, tables>>

\* ---- requests of two clients, one of them also seen through a proxy
LimitedRequests ==
    { NewRequest(<<"api", "auth", "login">>, "POST", "192.168.1.1", <<>>, None),
      NewRequest(<<"api", "customers">>, "GET", "192.168.1.1", <<>>, None),
      NewRequest(<<"api", "auth", "login">>, "POST", "10.0.0.1",
                 <<"192.168.1.1", "10.0.0.1">>, None),
      NewRequest(<<"api", "customers">>, "GET", "10.0.0.1", <<>>, None),
      NewRequest(<<"admin", "login">>, "GET", "192.168.1.1", <<>>, None),
      NewRequest(<<"static", "app.js">>, "GET", "192.168.1.1", <<>>, None) }

LimitRequest == \E request \in LimitedRequests : RateLimitProcessRequest(request)

LimitNext == LimitRequest

LimitSpec == WebOnlyInit /\ [][LimitNext]_vars

\* ------------------------------------------------- APIPermissionMiddleware
HTTP_401_UNAUTHORIZED == 401
HTTP_403_FORBIDDEN == 403

\* str.split('.') of a path segment; a permission such as 'jobs.read' is the
\* sequence <<"jobs", "read">> of its dot-separated parts.
SplitDots ==
    "customers" :> <<"customers">> @@ "jobs" :> <<"jobs">>
    @@ "jobs.json" :> <<"jobs", "json">> @@ "analytics" :> <<"analytics">>
    @@ "auth" :> <<"auth">> @@ "reports" :> <<"reports">>

role_permissions ==
    [admin |-> { <<"*">> },
     manager |-> { <<"customers", "*">>, <<"jobs", "*">>, <<"scheduling", "*">>,
                   <<"billing", "*">>, <<"analytics", "read">>, <<"inventory", "*">> },
     technician |-> { <<"customers", "read">>, <<"jobs", "read">>, <<"jobs", "update">>,
                      <<"inventory", "read">>, <<"scheduling", "read">> },
     customer |-> { <<"jobs", "read">>, <<"billing", "read">>, <<"customers", "read">> }]

\* self.role_permissions.get(role, [])
RolePerms(role) ==
    IF role \in DOMAIN role_permissions THEN role_permissions[role] ELSE {}

has_permission(role, required_permission) ==
    LET role_perms == RolePerms(role)
        resource == required_permission[1]
    IN \/ <<"*">> \in role_perms
       \/ required_permission \in role_perms
       \/ <<resource, "*">> \in role_perms

\* method_permission_map.get(method.lower(), 'read')
MethodPermission(method) ==
    CASE method = "GET" -> "read"
      [] method = "POST" -> "create"
      [] method \in {"PUT", "PATCH"} -> "update"
      [] method = "DELETE" -> "delete"
      [] OTHER -> "read"

\* The role the check uses: the user's role, or by staff status without one.
UserRole(user) ==
    IF user.role # "" THEN user.role
    ELSE IF user.is_staff THEN "admin" ELSE "customer"

\* APIPermissionMiddleware.process_request(request): None (passed on) or the
\* status of the JsonResponse.
APIPermissionResponse(request) ==
    IF ~StartsWith(request.path, <<"api">>) \/ StartsWith(request.path, <<"api", "auth">>)
    THEN None
    ELSE IF request.user = None THEN Some(HTTP_401_UNAUTHORIZED)
    ELSE IF Len(request.path) < 2 THEN None
    ELSE LET resource == SplitDots[request.path[2]]
             permission == MethodPermission(request.method)
             required_permission == resource \o <<permission>>
             user_role == UserRole(request.user[1])
         IN IF ~has_permission(user_role, required_permission)
            THEN Some(HTTP_403_FORBIDDEN)
            ELSE None

APIPermissionProcessRequest(request) ==
    /\ pc = "idle"
    /\ call' = [op |-> "APIPermissionMiddleware", request |-> request]
    /\ result' = [op |-> "APIPermissionMiddleware",
                  value |-> APIPermissionResponse(request)]
    /\ pc' = "permission_done"
    /\ UNCHANGED <<jobs, technicians, optimized_route, remaining_jobs, current_pos>>
    /\ UNCHANGED web

\* ---- every method on API and other paths, by every kind of user
NewUser(role, is_staff) == [role |-> role, is_staff |-> is_staff]

Users ==
    { None }
      \cup { Some(NewUser(role, FALSE)) :
               role \in {"admin", "manager", "technician", "customer"} }
      \cup { Some(NewUser("", is_staff)) : is_staff \in BOOLEAN }

Methods == {"GET", "POST", "PUT", "PATCH", "DELETE", "HEAD"}

Paths ==
    { <<"api", "customers">>, <<"api", "customers", "1">>, <<"api", "jobs">>,
      <<"api", "jobs.json">>, <<"api", "analytics">>, <<"api", "reports">>,
      <<"api", "auth", "login">>, <<"api">>, <<"admin">> }

PermissionRequest ==
    \E path \in Paths, method \in Methods, user \in Users :
        APIPermissionProcessRequest(NewRequest(path, method, "192.168.1.1", <<>>, user))

PermissionNext == PermissionRequest

PermissionSpec == WebOnlyInit /\ [][PermissionNext]_vars

\* ------------------------------------------------------- RouteOptimizer
\* A comparison that lets a later job at the same distance replace the nearest.
NearerOrTied(distance, nearest_distance) ==
    nearest_distance = None \/ distance <= nearest_distance[1]

\* `if distance < nearest_distance`, nearest_distance starting at float('inf').
Nearer(distance, nearest_distance) ==
    nearest_distance = None \/ distance < nearest_distance[1]

RECURSIVE NearestScan(_, _, _, _)
\* The `for job in remaining_jobs` scan: the first job at the least distance
\* among those with coordinates; nearest_distance None stands for float('inf').
NearestScan(rem, pos, nearest_job, nearest_distance) ==
    IF rem = <<>> THEN nearest_job
    ELSE LET job == JobOf(Head(rem)) IN
         IF HasCoordinates(job)
         THEN LET distance == calculate_distance(pos[1], pos[2],
                                                 job.latitude[1], job.longitude[1]) IN
              IF Nearer(distance, nearest_distance)
              THEN NearestScan(Tail(rem), pos, Some(job.id), Some(distance))
              ELSE NearestScan(Tail(rem), pos, nearest_job, nearest_distance)
         ELSE NearestScan(Tail(rem), pos, nearest_job, nearest_distance)

\* A removal that leaves the list as it was.
RemoveNothing(s, id) == s

\* list.pop(0) in place of list.remove(x): drops the head, whatever job it is.
RemoveHead(s, id) == Tail(s)

RECURSIVE RemoveFirst(_, _)
\* list.remove(x): drops the first element equal to x (jobs compare by id).
RemoveFirst(s, id) ==
    IF s = <<>> THEN <<>>
    ELSE IF Head(s) = id THEN Tail(s)
    ELSE <<Head(s)>> \o RemoveFirst(Tail(s), id)

Reverse(s) == [i \in 1..Len(s) |-> s[Len(s) + 1 - i]]

\* A fallback that appended the remaining jobs newest-last instead of in order.
FallbackExtendReversed(route, rem) == route \o Reverse(rem)

\* optimized_route.extend(remaining_jobs)
FallbackExtend(route, rem) == route \o rem

\* Job.objects.create by the job-management layer: the newest job comes first.
CreateJob(job) ==
    /\ pc = "idle"
    /\ Len(jobs) < MaxJobs
    /\ jobs' = <<job>> \o jobs
    /\ UNCHANGED <<technicians, pc, optimized_route, remaining_jobs, current_pos, call, result>>
    /\ UNCHANGED web

\* The property coordinates the route model draws from; a latitude of 0 is a
\* point on the equator.
RouteProperties ==
    { <<None, None>>,
      <<Some(0), Some(Deg(1))>>, <<Some(0), Some(Deg(2))>>,
      <<Some(Deg(1)), Some(Deg(1))>>, <<Some(Deg(1)), Some(Deg(2))>>,
      <<Some(Deg(2)), Some(Deg(1))>> }

RouteTechLocations ==
    { <<None, None>>, <<Some(0), Some(0)>>, <<Some(Deg(1)), Some(Deg(1))>>,
      <<None, Some(Deg(1))>> }

RouteCreateJob ==
    \E st \in Statuses, p \in RouteProperties :
        CreateJob(NewJob(Len(jobs) + 1, st, "normal", None, p[1], p[2],
                         None, None, None, Some(TheTechnician)))

\* optimize_technician_route(technician, date), up to the first loop test.
OptimizeRoute ==
    /\ pc = "idle"
    /\ LET technician == technicians[1]
           q == JobsOfTechnician(technician.id)
           start == StartPoint(technician)
       IN IF q = <<>>
          THEN /\ result' = [op |-> "optimize_technician_route", value |-> <<>>]
               /\ pc' = "route_done"
               /\ call' = [op |-> "optimize_technician_route", jobs |-> <<>>, start |-> None]
               /\ UNCHANGED <<optimized_route, remaining_jobs, current_pos>>
          ELSE /\ optimized_route' = <<>>
               /\ remaining_jobs' = Ids(q)
               /\ current_pos' = start
               /\ call' = [op |-> "optimize_technician_route", jobs |-> Ids(q), start |-> start]
               /\ pc' = "nn_loop"
               /\ UNCHANGED result
    /\ UNCHANGED <<jobs, technicians>>
    /\ UNCHANGED web

\* One iteration of `while remaining_jobs` in _nearest_neighbor_route, and the
\* return when the loop ends.
NearestNeighborStep ==
    /\ pc = "nn_loop"
    /\ remaining_jobs # <<>>
    /\ LET nearest_job == NearestScan(remaining_jobs, current_pos, None, None) IN
       IF nearest_job # None
       THEN LET job == JobOf(nearest_job[1])
                rest == RemoveFirst(remaining_jobs, job.id)
                route == Append(optimized_route, job.id)
            IN /\ optimized_route' = route
               /\ remaining_jobs' = rest
               /\ current_pos' = IF HasCoordinates(job)
                                 THEN <<job.latitude[1], job.longitude[1]>>
                                 ELSE current_pos
               /\ IF rest = <<>>
                  THEN /\ pc' = "route_done"
                       /\ result' = [op |-> "optimize_technician_route", value |-> route]
                  ELSE /\ pc' = "nn_loop"
                       /\ UNCHANGED result
       ELSE LET route == FallbackExtend(optimized_route, remaining_jobs) IN
            /\ optimized_route' = route
            /\ pc' = "route_done"
            /\ result' = [op |-> "optimize_technician_route", value |-> route]
            /\ UNCHANGED <<remaining_jobs, current_pos>>
    /\ UNCHANGED <<jobs, technicians, call>>
    /\ UNCHANGED web

\* ---- calculate_route_metrics
DEFAULT_JOB_HOURS == 200

\* An on-site duration that preferred the AI-suggested duration to the service
\* type's.
JobDurationAiFirst(job) ==
    IF Truthy(job.ai_suggested_duration)
    THEN job.ai_suggested_duration[1] * 36
    ELSE IF job.service_type # None /\ job.service_type[1].estimated_duration_hours # 0
    THEN job.service_type[1].estimated_duration_hours * 36
    ELSE DEFAULT_JOB_HOURS * 36

\* The on-site duration of a job, in seconds.
JobDuration(job) ==
    IF job.service_type # None /\ job.service_type[1].estimated_duration_hours # 0
    THEN job.service_type[1].estimated_duration_hours * 36
    ELSE IF Truthy(job.ai_suggested_duration)
    THEN job.ai_suggested_duration[1] * 36
    ELSE DEFAULT_JOB_HOURS * 36

RECURSIVE RouteWalk(_, _, _, _)
\* The `for job in jobs` loop: <<total_distance, total_job_duration>>.
RouteWalk(js, pos, total_distance, total_job_duration) ==
    IF js = <<>> THEN <<total_distance, total_job_duration>>
    ELSE LET job == JobOf(Head(js)) IN
         IF HasCoordinates(job)
         THEN RouteWalk(Tail(js), <<job.latitude[1], job.longitude[1]>>,
                        total_distance
                          + calculate_distance(pos[1], pos[2],
                                               job.latitude[1], job.longitude[1]),
                        total_job_duration + JobDuration(job))
         ELSE RouteWalk(Tail(js), pos, total_distance,
                        total_job_duration + JobDuration(job))

\* Nearest integer to n / d, for n >= 0 and d > 0.
RoundDiv(n, d) == (2 * n + d) \div (2 * d)

\* An empty-route record that scored the empty route like a zero-travel one.
EmptyMetricsScored ==
    [total_distance_miles |-> 0, total_travel_time |-> 0,
     total_job_time |-> 0, route_efficiency_score |-> 1000]

\* The empty-route record of calculate_route_metrics.
EmptyMetrics ==
    [total_distance_miles |-> 0, total_travel_time |-> 0,
     total_job_time |-> 0, route_efficiency_score |-> 0]

\* The share of the day spent travelling, where the code takes the share
\* spent on jobs.
EfficiencyScoreTravelShare(total_job_duration, total_travel_time) ==
    IF total_travel_time > 0
    THEN RoundDiv(total_travel_time * 1000,
                  total_job_duration + total_travel_time)
    ELSE 1000

\* The efficiency score, rounded to one decimal (in 1/10 percent).
EfficiencyScore(total_job_duration, total_travel_time) ==
    IF total_travel_time > 0
    THEN RoundDiv(total_job_duration * 1000,
                  total_job_duration + total_travel_time)
    ELSE 1000

\* Distances in 1/100 mile, times in seconds, the score in 1/10 percent;
\* estimated_completion is counted from now.
calculate_route_metrics(js, start_lat, start_lng) ==
    IF js = <<>> THEN EmptyMetrics
    ELSE LET w == RouteWalk(js, <<start_lat, start_lng>>, 0, 0)
             total_distance == w[1]
             total_job_duration == w[2]
             total_travel_time == estimate_travel_time(total_distance)
             efficiency_score ==
                 EfficiencyScore(total_job_duration, total_travel_time)
         IN [total_distance_miles |-> RoundDiv(total_distance, 10),
             total_travel_time |-> total_travel_time,
             total_job_time |-> total_job_duration,
             route_efficiency_score |-> efficiency_score,
             estimated_completion |-> total_job_duration + total_travel_time]

\* calculate_route_metrics on the route just returned, from the start point
\* the route_optimization view passes.
CalculateRouteMetrics ==
    /\ pc = "route_done"
    /\ LET start == StartPoint(technicians[1]) IN
       result' = [op |-> "calculate_route_metrics", jobs |-> result.value,
                  value |-> calculate_route_metrics(result.value, start[1], start[2])]
    /\ pc' = "metrics_done"
    /\ UNCHANGED <<jobs, technicians, optimized_route, remaining_jobs, current_pos, call>>
    /\ UNCHANGED web

Init ==
    /\ jobs = <<>>
    /\ \E loc \in RouteTechLocations :
           technicians = <<NewTechnician(TheTechnician, "journeyman", TRUE, FALSE, {},
                                         loc[1], loc[2])>>
    /\ pc = "idle"
    /\ optimized_route = <<>>
    /\ remaining_jobs = <<>>
    /\ current_pos = <<DEFAULT_START_LAT, DEFAULT_START_LNG>>
    /\ call = NoCall
    /\ result = NoCall
    /\ WebInit

Next ==
    \/ RouteCreateJob
    \/ OptimizeRoute
    \/ NearestNeighborStep
    \/ CalculateRouteMetrics

Spec == Init /\ [][Next]_vars

\* ------------------------------------------- suggest_optimal_time_slot
\* A time of day is a number of seconds since 00:00.
HM(h, m) == (h * 60 + m) * 60
DAY_SECONDS == 86400

\* A work day that ended an hour later.
WORK_END_LATE == HM(18, 0)

WORK_START == HM(8, 0)
WORK_END == HM(17, 0)

NewServiceType(id, skill, hours) ==
    [id |-> id, skill_level_required |-> skill, estimated_duration_hours |-> hours]

\* time.strftime('%H:%M'): the hour and the minute, the seconds dropped.
strftime(t) == <<t \div 3600, (t % 3600) \div 60>>

\* duration_hours of the job to place, in 1/100 hour.
DurationHours(service_type) ==
    IF service_type # None /\ service_type[1].estimated_duration_hours # 0
    THEN service_type[1].estimated_duration_hours
    ELSE DEFAULT_JOB_HOURS

\* The time current_time moves to after an existing job: its end time, or its
\* start plus the service type's hours (2 without a service type); .time()
\* drops the day of a sum that passes midnight.
EndOfJob(job) ==
    IF job.scheduled_end_time # None
    THEN job.scheduled_end_time[1]
    ELSE LET est_duration == IF job.service_type # None
                             THEN job.service_type[1].estimated_duration_hours
                             ELSE DEFAULT_JOB_HOURS
         IN (job.scheduled_start_time[1] + est_duration * 36) % DAY_SECONDS

\* gap_duration >= duration_hours, the gap in seconds and the duration in
\* 1/100 hour.
GapFits(gap_seconds, duration_hours) == gap_seconds * 100 >= duration_hours * 3600

RECURSIVE SlotScan(_, _, _)
\* The `for existing_job in existing_jobs` loop and the end-of-day test:
\* None, or <<the string returned>>.
SlotScan(existing, current_time, duration_hours) ==
    IF existing = <<>>
    THEN IF GapFits(WORK_END - current_time, duration_hours)
         THEN Some(strftime(current_time))
         ELSE None
    ELSE LET existing_job == JobOf(Head(existing)) IN
         IF existing_job.scheduled_start_time # None
         THEN IF GapFits(existing_job.scheduled_start_time[1] - current_time,
                         duration_hours)
              THEN Some(strftime(current_time))
              ELSE SlotScan(Tail(existing), EndOfJob(existing_job), duration_hours)
         ELSE SlotScan(Tail(existing), current_time, duration_hours)

\* suggest_optimal_time_slot(job, technician, date), on the existing jobs in
\* the order the query yielded them.
suggest_optimal_time_slot(service_type, existing) ==
    SlotScan(existing, WORK_START, DurationHours(service_type))

\* .order_by('scheduled_start_time'): ascending, NULLs last (PostgreSQL); the
\* order of rows with equal start times is the database's choice.
StartKeyLeq(a, b) ==
    \/ b.scheduled_start_time = None
    \/ /\ a.scheduled_start_time # None
       /\ a.scheduled_start_time[1] <= b.scheduled_start_time[1]

OrderedByStart(js) ==
    LET n == Len(js) IN
    { [i \in 1..n |-> js[p[i]].id] :
        p \in { f \in [1..n -> 1..n] :
                  /\ \A i, j \in 1..n : i # j => f[i] # f[j]
                  /\ \A i, j \in 1..n : i < j => StartKeyLeq(js[f[i]], js[f[j]]) } }

\* The existing jobs the time-slot model draws from: start, end, hours of the
\* service type (None: no service type), status, technician.
SlotJobOptions ==
    { <<Some(HM(6, 0)), Some(HM(7, 0)), None, "scheduled", TheTechnician>>,
      <<Some(HM(7, 0)), Some(HM(16, 0)), None, "scheduled", TheTechnician>>,
      <<Some(HM(8, 0)), Some(HM(12, 0)), None, "scheduled", TheTechnician>>,
      <<Some(HM(12, 0)), Some(HM(17, 0)), None, "in_progress", TheTechnician>>,
      <<Some(HM(12, 0)), Some(HM(12, 0)), None, "scheduled", TheTechnician>>,
      <<Some(HM(8, 0)), Some(HM(16, 0)), None, "scheduled", TheTechnician>>,
      <<Some(HM(9, 0)), Some(HM(10, 0)), Some(100), "in_progress", TheTechnician>>,
      <<Some(HM(19, 0)), Some(HM(20, 0)), None, "scheduled", TheTechnician>>,
      <<Some(HM(8, 0)), None, None, "scheduled", TheTechnician>>,
      <<Some(HM(10, 0)), None, Some(700), "scheduled", TheTechnician>>,
      <<Some(HM(22, 0)), None, Some(300), "scheduled", TheTechnician>>,
      <<None, None, Some(100), "scheduled", TheTechnician>>,
      <<Some(HM(8, 0)), Some(HM(17, 0)), None, "completed", TheTechnician>>,
      <<Some(HM(8, 0)), Some(HM(17, 0)), None, "scheduled", OtherTechnician>> }

\* The service type of the job to place: none, or one of 0 (unset), 1 or 3 hours.
SlotServiceTypes ==
    { None } \cup { Some(NewServiceType(1, "apprentice", h)) : h \in {0, 100, 300} }

SlotCreateJob ==
    \E o \in SlotJobOptions :
        CreateJob(NewJob(Len(jobs) + 1, o[4], "normal",
                         IF o[3] = None THEN None
                         ELSE Some(NewServiceType(2, "apprentice", o[3][1])),
                         None, None, o[1], o[2], None, Some(o[5])))

SuggestSlot ==
    /\ pc = "idle"
    /\ \E st \in SlotServiceTypes :
       \E existing \in OrderedByStart(JobsOfTechnician(TheTechnician)) :
           /\ call' = [op |-> "suggest_optimal_time_slot", service_type |-> st,
                       existing |-> existing]
           /\ result' = [op |-> "suggest_optimal_time_slot",
                         value |-> suggest_optimal_time_slot(st, existing)]
    /\ pc' = "slot_done"
    /\ UNCHANGED <<jobs, technicians, optimized_route, remaining_jobs, current_pos>>
    /\ UNCHANGED web

SlotNext ==
    \/ SlotCreateJob
    \/ SuggestSlot

SlotInit ==
    /\ jobs = <<>>
    /\ technicians = <<NewTechnician(TheTechnician, "journeyman", TRUE, FALSE, {},
                                     None, None)>>
    /\ pc = "idle"
    /\ optimized_route = <<>>
    /\ remaining_jobs = <<>>
    /\ current_pos = <<DEFAULT_START_LAT, DEFAULT_START_LNG>>
    /\ call = NoCall
    /\ result = NoCall
    /\ WebInit

SlotSpec == SlotInit /\ [][SlotNext]_vars

\* ------------------------------------- the durations of a route's jobs
\* The jobs the duration model draws from: hours of the service type (None:
\* no service type; 0.00 is a value the column takes), the AI-suggested
\* duration (None: NULL), and the property's coordinates.
MetricsJobOptions ==
    { <<st, ai, <<Some(Deg(1)), Some(Deg(1))>> >> :
          st \in {None, Some(0), Some(150)}, ai \in {None, Some(0), Some(250)} }
      \cup { <<None, None, <<None, None>> >>, <<Some(150), Some(250), <<None, None>> >> }

MetricsCreateJob ==
    \E o \in MetricsJobOptions :
        CreateJob(NewJob(Len(jobs) + 1, "scheduled", "normal",
                         IF o[1] = None THEN None
                         ELSE Some(NewServiceType(2, "apprentice", o[1][1])),
                         o[3][1], o[3][2], None, None, o[2], Some(TheTechnician)))

\* The route_optimization view: the route, then its metrics.
MetricsNext ==
    \/ MetricsCreateJob
    \/ OptimizeRoute
    \/ NearestNeighborStep
    \/ CalculateRouteMetrics

MetricsInit == SlotInit

MetricsSpec == MetricsInit /\ [][MetricsNext]_vars

\* ------------------------------------------ suggest_technician_for_job
TOP_CANDIDATES == 5

\* A hierarchy in which a journeyman could take a master's job.
skill_hierarchy_lax(required_skill) ==
    CASE required_skill = "apprentice" -> {"apprentice", "journeyman", "master"}
      [] required_skill = "journeyman" -> {"journeyman", "master"}
      [] required_skill = "master" -> {"journeyman", "master"}
      [] OTHER -> {"apprentice", "journeyman", "master"}

\* skill_hierarchy.get(required_skill, all three)
skill_hierarchy(required_skill) ==
    CASE required_skill = "apprentice" -> {"apprentice", "journeyman", "master"}
      [] required_skill = "journeyman" -> {"journeyman", "master"}
      [] required_skill = "master" -> {"master"}
      [] OTHER -> {"apprentice", "journeyman", "master"}

RequiredSkill(job) ==
    IF job.service_type # None THEN job.service_type[1].skill_level_required
    ELSE "apprentice"

\* An emergency filter that was never applied.
EmergencyFilterOff(job, tech) == TRUE

\* candidates.filter(emergency_availability=True), for an emergency job only
EmergencyFilter(job, tech) ==
    job.priority = "emergency" => tech.emergency_availability

\* The candidate query: the technicians of the table that pass the filters,
\* in query order.
Candidates(job) ==
    SelectSeq(technicians,
              LAMBDA tech : /\ tech.skill_level \in skill_hierarchy(RequiredSkill(job))
                            /\ tech.is_available
                            /\ EmergencyFilter(job, tech))

SkillBonus(job, tech) ==
    IF tech.skill_level = RequiredSkill(job) THEN 10
    ELSE IF tech.skill_level = "master" THEN 5
    ELSE 0

SpecialtyBonus(job, tech) ==
    IF job.service_type # None /\ job.service_type[1].id \in tech.specialties
    THEN 15 ELSE 0

ProximityBonus(job, tech) ==
    IF /\ Truthy(tech.current_location_lat) /\ Truthy(tech.current_location_lng)
       /\ Truthy(job.latitude) /\ Truthy(job.longitude)
    THEN LET distance == calculate_distance(tech.current_location_lat[1],
                                            tech.current_location_lng[1],
                                            job.latitude[1], job.longitude[1])
         IN IF distance <= 5000 THEN 10
            ELSE IF distance <= 15000 THEN 5
            ELSE 0
    ELSE 0

\* Job.objects.filter(assigned_technician=tech, ...).count() and its bonus
WorkloadBonus(job, tech) ==
    LET current_jobs == Len(JobsOfTechnician(tech.id)) IN
    IF current_jobs = 0 THEN 10
    ELSE IF current_jobs <= 2 THEN 5
    ELSE 0

Score(job, tech) ==
    SkillBonus(job, tech) + SpecialtyBonus(job, tech)
      + ProximityBonus(job, tech) + WorkloadBonus(job, tech)

\* An insertion that put a candidate before the earlier ones of equal score.
InsertByScoreUnstable(sorted, c) ==
    LET k == Cardinality({ i \in 1..Len(sorted) : sorted[i][2] > c[2] }) IN
    SubSeq(sorted, 1, k) \o <<c>> \o SubSeq(sorted, k + 1, Len(sorted))

\* Where a stable descending sort puts c among the earlier candidates: after
\* every one whose score is at least c's.
InsertByScore(sorted, c) ==
    LET k == Cardinality({ i \in 1..Len(sorted) : sorted[i][2] >= c[2] }) IN
    SubSeq(sorted, 1, k) \o <<c>> \o SubSeq(sorted, k + 1, Len(sorted))

RECURSIVE SortByScore(_)
\* scored_candidates.sort(key=lambda x: x[1], reverse=True): stable.
SortByScore(scored) ==
    IF scored = <<>> THEN <<>>
    ELSE InsertByScore(SortByScore(SubSeq(scored, 1, Len(scored) - 1)),
                       scored[Len(scored)])

\* scored_candidates after the sort: <<technician id, score>> pairs.
ScoredCandidates(job) ==
    LET candidates == Candidates(job) IN
    SortByScore([i \in 1..Len(candidates) |->
                    <<candidates[i].id, Score(job, candidates[i])>>])

\* [tech for tech, score in scored_candidates[:5]]
TopCandidates(scored) ==
    [i \in 1..Min2(TOP_CANDIDATES, Len(scored)) |-> scored[i][1]]

ServiceTypeOf(skill) ==
    NewServiceType(CASE skill = "apprentice" -> 1 [] skill = "journeyman" -> 2
                     [] OTHER -> 3,
                   skill, DEFAULT_JOB_HOURS)

\* Technician.objects.create: a new technician, last in query order.
HireTechnician(tech) ==
    /\ pc = "idle"
    /\ technicians' = Append(technicians, tech)
    /\ UNCHANGED <<jobs, pc, optimized_route, remaining_jobs, current_pos, call, result>>
    /\ UNCHANGED web

\* suggest_technician_for_job(job)
SuggestTechnician(job) ==
    /\ pc = "idle"
    /\ LET scored == ScoredCandidates(job) IN
       /\ call' = [op |-> "suggest_technician_for_job", job |-> job]
       /\ result' = [op |-> "suggest_technician_for_job",
                     scored_candidates |-> scored,
                     value |-> TopCandidates(scored)]
    /\ pc' = "suggest_done"
    /\ UNCHANGED <<jobs, technicians, optimized_route, remaining_jobs, current_pos>>
    /\ UNCHANGED web

\* ---- one technician of every kind, with up to MaxJobs jobs of the date
TechLocations ==
    { <<None, None>> }
      \cup { <<Some(CentiDeg(c)), Some(Deg(1))>> : c \in {0, 10, 20, 100} }

TechHire ==
    /\ technicians = <<>>
    /\ \E skill \in SkillLevels, avail \in BOOLEAN, emerg \in BOOLEAN,
          specs \in {{}, {2}}, loc \in TechLocations :
           HireTechnician(NewTechnician(TheTechnician, skill, avail, emerg, specs,
                                        loc[1], loc[2]))

TechCreateJob ==
    /\ technicians # <<>>
    /\ \E st \in Statuses :
           CreateJob(NewJob(Len(jobs) + 1, st, "normal", None, None, None,
                            None, None, None, Some(TheTechnician)))

\* The job to staff: any service type or none, normal or emergency, at a
\* property with or without coordinates.
TechJobs ==
    { NewJob(0, "pending", prio, st, p[1], p[2], None, None, None, None) :
        prio \in {"normal", "emergency"},
        st \in {None} \cup { Some(ServiceTypeOf(sk)) : sk \in SkillLevels },
        p \in { <<None, None>>, <<Some(CentiDeg(5)), Some(Deg(1))>> } }

TechSuggest == \E job \in TechJobs : SuggestTechnician(job)

TechInit ==
    /\ jobs = <<>>
    /\ technicians = <<>>
    /\ pc = "idle"
    /\ optimized_route = <<>>
    /\ remaining_jobs = <<>>
    /\ current_pos = <<DEFAULT_START_LAT, DEFAULT_START_LNG>>
    /\ call = NoCall
    /\ result = NoCall
    /\ WebInit

TechNext ==
    \/ TechHire
    \/ TechCreateJob
    \/ TechSuggest

TechSpec == TechInit /\ [][TechNext]_vars

\* ---- up to MaxTechs technicians of four kinds, none with a job on the date
RankTechnicians ==
    { <<"apprentice", {}>>, <<"journeyman", {2}>>, <<"master", {}>>, <<"master", {2}>> }

RankHire ==
    /\ Len(technicians) < MaxTechs
    /\ \E k \in RankTechnicians :
           HireTechnician(NewTechnician(Len(technicians) + 1, k[1], TRUE, TRUE, k[2],
                                        None, None))

RankJobs ==
    { NewJob(0, "pending", "normal", st, None, None, None, None, None, None) :
        st \in {None} \cup { Some(ServiceTypeOf(sk)) : sk \in SkillLevels } }

RankSuggest == \E job \in RankJobs : SuggestTechnician(job)

RankNext ==
    \/ RankHire
    \/ RankSuggest

RankSpec == TechInit /\ [][RankNext]_vars

\* ------------------------------------------------ estimate_job_complexity
\* A text (a service-type name, a job description) is the set of its words.
\* str.lower() maps each word to its lower-case form; `keyword in text` holds
\* when the keyword is a substring of one of the lower-case words.
LowerCase ==
    "Panel" :> "panel" @@ "panel" :> "panel" @@ "Subpanel" :> "subpanel"
    @@ "Upgrade" :> "upgrade" @@ "UPGRADE" :> "upgrade"
    @@ "Emergency" :> "emergency" @@ "Outlet" :> "outlet"
    @@ "outlets" :> "outlets" @@ "Rewire" :> "rewire"
    @@ "troubleshooting" :> "troubleshooting" @@ "Repair" :> "repair"
    @@ "switch" :> "switch" @@ "Fixture" :> "fixture"
    @@ "reinstall" :> "reinstall" @@ "Service" :> "service"

lower(text) == { LowerCase[w] : w \in text }

\* The keywords of the estimate that are substrings of a lower-case word.
Substrings ==
    "panel" :> {"panel"} @@ "subpanel" :> {"panel"} @@ "upgrade" :> {"upgrade"}
    @@ "emergency" :> {"emergency"} @@ "outlet" :> {"outlet"}
    @@ "outlets" :> {"outlet"} @@ "rewire" :> {"rewire"}
    @@ "troubleshooting" :> {"troubleshoot"} @@ "repair" :> {"repair"}
    @@ "switch" :> {"switch"} @@ "fixture" :> {"fixture"}
    @@ "reinstall" :> {"install"} @@ "service" :> {}

In(keyword, lowered) == \E w \in lowered : keyword \in Substrings[w]

complex_keywords == {"rewire", "panel", "upgrade", "troubleshoot", "repair"}
simple_keywords == {"outlet", "switch", "fixture", "install"}

\* The adjustment for the service-type name, in 1/10 point: the first branch
\* of the if/elif chain whose condition holds.
ServiceTypeComplexity(job) ==
    IF job.service_type = None THEN 0
    ELSE LET name == lower(job.service_type[1].name) IN
         IF In("panel", name) \/ In("upgrade", name) THEN 20
         ELSE IF In("emergency", name) THEN 10
         ELSE IF In("outlet", name) THEN -10
         ELSE 0

PriorityComplexity(job) ==
    IF job.priority = "emergency" THEN 10
    ELSE IF job.priority = "high" THEN 5
    ELSE 0

DescriptionComplexity(job) ==
    LET description_lower == lower(job.description) IN
    5 * Cardinality({ k \in complex_keywords : In(k, description_lower) })
    - 3 * Cardinality({ k \in simple_keywords : In(k, description_lower) })

\* The local variable complexity before the return statement, in 1/10 point.
ComplexityScore(job) ==
    50 + ServiceTypeComplexity(job) + PriorityComplexity(job)
       + DescriptionComplexity(job)

\* Python's round(): to the nearest integer, a tie to the even one.
round(tenths) ==
    LET q == tenths \div 10
        r == tenths % 10
    IN IF r < 5 THEN q
       ELSE IF r > 5 THEN q + 1
       ELSE IF q % 2 = 0 THEN q ELSE q + 1

\* The score rounded up and returned as it is.
estimate_job_complexity_ceiling(job) == (ComplexityScore(job) + 9) \div 10

estimate_job_complexity(job) == Max2(1, Min2(10, round(ComplexityScore(job))))

\* The estimate stored on the job, as the estimate_complexity view does
\* after the call.
EstimateComplexityAndSave(job) ==
    /\ pc = "idle"
    /\ call' = [op |-> "estimate_job_complexity", job |-> job]
    /\ result' = [op |-> "estimate_job_complexity",
                  complexity |-> ComplexityScore(job),
                  value |-> estimate_job_complexity(job)]
    /\ pc' = "complexity_done"
    /\ jobs' = [i \in 1..Len(jobs) |->
                  IF jobs[i].id = job.id
                  THEN [jobs[i] EXCEPT !.ai_complexity_score =
                                           Some(estimate_job_complexity(job))]
                  ELSE jobs[i]]
    /\ UNCHANGED <<technicians, optimized_route, remaining_jobs, current_pos>>
    /\ UNCHANGED web

EstimateComplexity(job) ==
    /\ pc = "idle"
    /\ call' = [op |-> "estimate_job_complexity", job |-> job]
    /\ result' = [op |-> "estimate_job_complexity",
                  complexity |-> ComplexityScore(job),
                  value |-> estimate_job_complexity(job)]
    /\ pc' = "complexity_done"
    /\ UNCHANGED <<jobs, technicians, optimized_route, remaining_jobs, current_pos>>
    /\ UNCHANGED web

\* ---- jobs of every priority, with and without a service type
Priorities == {"low", "normal", "high", "emergency"}

ServiceTypeNames ==
    { {"Subpanel", "Upgrade"}, {"Emergency", "Service"}, {"Outlet", "Service"},
      {"Emergency", "Panel"}, {"Emergency", "Outlet"}, {"Service"} }

DescriptionWords ==
    {"Rewire", "panel", "UPGRADE", "troubleshooting", "Repair",
     "outlets", "switch", "Fixture", "reinstall"}

ServiceTypes == {None} \cup { Some([name |-> n]) : n \in ServiceTypeNames }

ComplexityEstimate ==
    \E st \in ServiceTypes, prio \in Priorities, d \in SUBSET DescriptionWords :
        EstimateComplexity([service_type |-> st, priority |-> prio,
                            description |-> d])

ComplexityNext == ComplexityEstimate

ComplexitySpec == TechInit /\ [][ComplexityNext]_vars

\* ---- the five operations called in any sequence over one store
\* The records of the store with the fields the complexity estimate reads.
Described(job, description) ==
    job @@ [description |-> description, ai_complexity_score |-> None]

Named(service_type, name) == service_type @@ [name |-> name]

CoreJobs ==
    { Described(NewJob(Len(jobs) + 1, "scheduled", "normal", None,
                       Some(Deg(1)), Some(Deg(1)), Some(HM(8, 0)), Some(HM(10, 0)),
                       None, Some(TheTechnician)), {}),
      Described(NewJob(Len(jobs) + 1, "scheduled", "emergency",
                       Some(Named(NewServiceType(3, "master", 300),
                                  {"Emergency", "Panel"})),
                       Some(Deg(1)), Some(Deg(2)), Some(HM(10, 0)), None,
                       None, Some(TheTechnician)), {"Rewire", "panel"}),
      Described(NewJob(Len(jobs) + 1, "in_progress", "high",
                       Some(Named(NewServiceType(1, "apprentice", 100),
                                  {"Outlet", "Service"})),
                       None, None, None, None,
                       None, Some(TheTechnician)), {"outlets"}),
      Described(NewJob(Len(jobs) + 1, "completed", "low", None,
                       Some(Deg(2)), Some(Deg(1)), Some(HM(13, 0)), Some(HM(15, 0)),
                       None, Some(TheTechnician)), {"Repair"}),
      Described(NewJob(Len(jobs) + 1, "pending", "normal",
                       Some(Named(NewServiceType(2, "journeyman", 200),
                                  {"Service"})),
                       Some(Deg(2)), Some(Deg(1)), None, None,
                       None, None), {}) }

CoreCreateJob == \E job \in CoreJobs : CreateJob(job)

CoreSuggestTechnician == \E i \in 1..Len(jobs) : SuggestTechnician(jobs[i])

CoreEstimateComplexity == \E i \in 1..Len(jobs) : EstimateComplexity(jobs[i])

\* The call returns and the caller goes on to its next call.
Return ==
    /\ pc \in {"route_done", "metrics_done", "slot_done", "suggest_done",
               "complexity_done"}
    /\ pc' = "idle"
    /\ UNCHANGED <<jobs, technicians, optimized_route, remaining_jobs, current_pos,
                   call, result>>
    /\ UNCHANGED web

CoreInit ==
    /\ jobs = <<>>
    /\ technicians = <<NewTechnician(TheTechnician, "journeyman", TRUE, FALSE, {2},
                                     Some(Deg(1)), Some(Deg(1))),
                       NewTechnician(OtherTechnician, "master", TRUE, TRUE, {},
                                     None, None)>>
    /\ pc = "idle"
    /\ optimized_route = <<>>
    /\ remaining_jobs = <<>>
    /\ current_pos = <<DEFAULT_START_LAT, DEFAULT_START_LNG>>
    /\ call = NoCall
    /\ result = NoCall
    /\ WebInit

CoreNext ==
    \/ CoreCreateJob
    \/ OptimizeRoute
    \/ NearestNeighborStep
    \/ CalculateRouteMetrics
    \/ CoreSuggestTechnician
    \/ CoreEstimateComplexity
    \/ SuggestSlot
    \/ Return

CoreSpec == CoreInit /\ [][CoreNext]_vars

\* ------------------------------------ JobViewSet: status and assignment
\* [choice[0] for choice in Job.JOB_STATUS_CHOICES]
JOB_STATUS_CHOICES ==
    {"pending", "scheduled", "in_progress", "completed", "cancelled", "on_hold"}

HTTP_200_OK == 200
HTTP_400_BAD_REQUEST == 400
HTTP_404_NOT_FOUND == 404

\* The rows the history table may reach in a run.
MaxEntries == 3

\* Position of a job in the Job table.
RowOf(id) == CHOOSE i \in 1..Len(jobs) : jobs[i].id = id

\* JobStatusHistory.objects.create(job=, old_status=, new_status=, notes=)
NewStatusHistory(job, old_status, new_status, notes) ==
    [job |-> job, old_status |-> old_status, new_status |-> new_status,
     notes |-> notes]

\* A status after an assignment that left a pending job pending.
AssignedStatusKept(status) == status

\* 'scheduled' if job.status == 'pending' else job.status
AssignedStatus(status) == IF status = "pending" THEN "scheduled" ELSE status

\* POST /jobs/<pk>/assign_technician/ with technician_id (None: not sent).
assign_technician(pk, technician_id) ==
    /\ pc = "idle"
    /\ pk \in { jobs[i].id : i \in 1..Len(jobs) }
    /\ Len(status_history) < MaxEntries
    /\ call' = [op |-> "assign_technician", job |-> pk, technician_id |-> technician_id]
    /\ LET job == JobOf(pk) IN
       IF ~Truthy(technician_id)
       THEN /\ result' = [op |-> "assign_technician", code |-> HTTP_400_BAD_REQUEST]
            /\ UNCHANGED <<jobs, status_history>>
       ELSE IF technician_id[1] \notin { technicians[i].id : i \in 1..Len(technicians) }
       THEN /\ result' = [op |-> "assign_technician", code |-> HTTP_404_NOT_FOUND]
            /\ UNCHANGED <<jobs, status_history>>
       ELSE IF job.assigned_technician # technician_id
       THEN /\ status_history' =
                   Append(status_history,
                          NewStatusHistory(pk, job.status, AssignedStatus(job.status),
                                           <<"Assigned to", technician_id[1]>>))
            /\ jobs' = [jobs EXCEPT ![RowOf(pk)] =
                           [job EXCEPT !.assigned_technician = technician_id,
                                       !.status = IF job.status = "pending"
                                                  THEN "scheduled" ELSE job.status]]
            /\ result' = [op |-> "assign_technician", code |-> HTTP_200_OK]
       ELSE /\ result' = [op |-> "assign_technician", code |-> HTTP_200_OK]
            /\ UNCHANGED <<jobs, status_history>>
    /\ UNCHANGED <<technicians, pc, optimized_route, remaining_jobs, current_pos>>
    /\ UNCHANGED <<caches, now, log, conflicts>>

\* POST /jobs/<pk>/update_status/ with status (None: not sent).
update_status(pk, new_status) ==
    /\ pc = "idle"
    /\ pk \in { jobs[i].id : i \in 1..Len(jobs) }
    /\ Len(status_history) < MaxEntries
    /\ call' = [op |-> "update_status", job |-> pk, status |-> new_status]
    /\ LET job == JobOf(pk) IN
       IF new_status = None
       THEN /\ result' = [op |-> "update_status", code |-> HTTP_400_BAD_REQUEST]
            /\ UNCHANGED <<jobs, status_history>>
       ELSE IF new_status[1] \notin JOB_STATUS_CHOICES
       THEN /\ result' = [op |-> "update_status", code |-> HTTP_400_BAD_REQUEST]
            /\ UNCHANGED <<jobs, status_history>>
       ELSE IF job.status # new_status[1]
       THEN /\ status_history' =
                   Append(status_history,
                          NewStatusHistory(pk, job.status, new_status[1], <<>>))
            /\ jobs' = [jobs EXCEPT ![RowOf(pk)] =
                           [job EXCEPT
                              !.status = new_status[1],
                              !.actual_start_time =
                                  IF new_status[1] = "in_progress" /\ @ = None
                                  THEN Some(now) ELSE @,
                              !.actual_end_time =
                                  IF new_status[1] = "completed" /\ @ = None
                                  THEN Some(now) ELSE @]]
            /\ result' = [op |-> "update_status", code |-> HTTP_200_OK]
       ELSE /\ result' = [op |-> "update_status", code |-> HTTP_200_OK]
            /\ UNCHANGED <<jobs, status_history>>
    /\ UNCHANGED <<technicians, pc, optimized_route, remaining_jobs, current_pos>>
    /\ UNCHANGED <<caches, now, log, conflicts>>

\* The technician ids and statuses the requests carry: not sent, known,
\* unknown.
AssignInputs == {None, Some(TheTechnician), Some(OtherTechnician), Some(9)}
StatusInputs ==
    {None, Some("bogus"), Some("pending"), Some("scheduled"), Some("in_progress"),
     Some("completed")}

AssignRequest ==
    \E pk \in 1..2, technician_id \in AssignInputs : assign_technician(pk, technician_id)

StatusRequest ==
    \E pk \in 1..2, new_status \in StatusInputs : update_status(pk, new_status)

HistoryNext ==
    \/ AssignRequest
    \/ StatusRequest

\* A job with the clock fields of the Job table that update_status sets.
TrackedJob(id, status, tech) ==
    NewJob(id, status, "normal", None, None, None, None, None, None, tech)
      @@ [actual_start_time |-> None, actual_end_time |-> None]

\* Two jobs stored, each pending and unassigned or on hold with a
\* technician; no history yet.
HistoryInit ==
    /\ \E first, second \in { <<"pending", None>>, <<"on_hold", Some(TheTechnician)>> } :
           jobs = <<TrackedJob(2, second[1], second[2]), TrackedJob(1, first[1], first[2])>>
    /\ technicians = <<NewTechnician(TheTechnician, "journeyman", TRUE, FALSE, {},
                                     None, None),
                       NewTechnician(OtherTechnician, "master", TRUE, TRUE, {},
                                     None, None)>>
    /\ pc = "idle"
    /\ optimized_route = <<>>
    /\ remaining_jobs = <<>>
    /\ current_pos = <<DEFAULT_START_LAT, DEFAULT_START_LNG>>
    /\ call = NoCall
    /\ result = NoCall
    /\ WebInit

HistorySpec == HistoryInit /\ [][HistoryNext]_vars

\* ------------------------------- ScheduleConflictViewSet.detect_conflicts
\* Dates are days counted from today (day 1); a request carries a date as
\* text: None when not sent, Unparsable for text strptime rejects.
TODAY == 1
RANGE_DAYS == 7
Unparsable == Some(-1)
HTTP_500_INTERNAL_SERVER_ERROR == 500

\* A job with the date it is scheduled on.
DatedJob(id, date, tech, start, end) ==
    NewJob(id, "scheduled", "normal", None, None, None, start, end, None, tech)
      @@ [scheduled_date |-> date]

\* ScheduleConflict.objects.create(conflict_type='job_overlap', ...)
NewConflict(job, overlapping_job) ==
    [conflict_type |-> "job_overlap", description |-> <<job.id, overlapping_job.id>>,
     job |-> job.id, technician |-> job.assigned_technician[1],
     conflict_date |-> job.scheduled_date[1],
     conflict_start_time |-> job.scheduled_start_time,
     conflict_end_time |-> job.scheduled_end_time,
     resolution_status |-> "unresolved"]

\* Job.objects.filter(scheduled_date__gte=, scheduled_date__lte=,
\*                    assigned_technician__isnull=False), in Meta ordering
JobsInRange(start_date, end_date) ==
    SelectSeq(jobs, LAMBDA j : /\ j.scheduled_date # None
                               /\ j.scheduled_date[1] >= start_date
                               /\ j.scheduled_date[1] <= end_date
                               /\ j.assigned_technician # None)

\* scheduled_start_time__lt=job.scheduled_end_time,
\* scheduled_end_time__gt=job.scheduled_start_time: a row with a NULL time
\* matches neither comparison.
TimesOverlap(other, job) ==
    /\ other.scheduled_start_time # None
    /\ other.scheduled_end_time # None
    /\ other.scheduled_start_time[1] < job.scheduled_end_time[1]
    /\ other.scheduled_end_time[1] > job.scheduled_start_time[1]

\* The overlapping_jobs query of a job whose two times are set.
OverlappingJobs(job) ==
    SelectSeq(jobs, LAMBDA other : /\ other.assigned_technician = job.assigned_technician
                                   /\ other.scheduled_date = job.scheduled_date
                                   /\ TimesOverlap(other, job)
                                   /\ other.id # job.id)

\* The existing_conflict query: is there a row for the job, its technician
\* and its date.
ExistingConflict(table, job) ==
    \E i \in 1..Len(table) :
        /\ table[i].job = job.id
        /\ table[i].technician = job.assigned_technician[1]
        /\ table[i].conflict_type = "job_overlap"
        /\ table[i].conflict_date = job.scheduled_date[1]

RECURSIVE ForOverlapping(_, _, _)
\* `for overlapping_job in overlapping_jobs`: the table after the loop.
ForOverlapping(overlapping, job, table) ==
    IF overlapping = <<>> THEN table
    ELSE ForOverlapping(Tail(overlapping), job,
                        IF ExistingConflict(table, job) THEN table
                        ELSE Append(table, NewConflict(job, Head(overlapping))))

RECURSIVE ForJobs(_, _)
\* `for job in jobs`: the table after the loop and whether it ran to its end.
\* Job.objects.filter(scheduled_start_time__lt=None) raises ValueError
\* ("Cannot use None as a query value"): the loop ends there, the rows
\* created so far stay (no transaction is open).
ForJobs(in_range, table) ==
    IF in_range = <<>> THEN [table |-> table, completed |-> TRUE]
    ELSE LET job == Head(in_range) IN
         IF job.scheduled_end_time = None \/ job.scheduled_start_time = None
         THEN [table |-> table, completed |-> FALSE]
         ELSE ForJobs(Tail(in_range), ForOverlapping(OverlappingJobs(job), job, table))

\* POST /conflicts/detect_conflicts/ with start_date and end_date.
detect_conflicts(start_date, end_date) ==
    /\ pc = "idle"
    /\ call' = [op |-> "detect_conflicts", start_date |-> start_date,
                end_date |-> end_date, table |-> jobs]
    /\ IF start_date = Unparsable \/ end_date = Unparsable
       THEN /\ result' = [op |-> "detect_conflicts", code |-> HTTP_400_BAD_REQUEST]
            /\ UNCHANGED conflicts
       ELSE LET first == IF start_date = None THEN TODAY ELSE start_date[1]
                last == IF end_date = None THEN first + RANGE_DAYS ELSE end_date[1]
                run == ForJobs(JobsInRange(first, last), conflicts)
            IN /\ conflicts' = run.table
               /\ result' = IF run.completed
                            THEN [op |-> "detect_conflicts", code |-> HTTP_200_OK,
                                  conflicts_created |-> Len(run.table) - Len(conflicts)]
                            ELSE [op |-> "detect_conflicts",
                                  code |-> HTTP_500_INTERNAL_SERVER_ERROR]
    /\ UNCHANGED <<jobs, technicians, pc, optimized_route, remaining_jobs, current_pos>>
    /\ UNCHANGED <<caches, now, log, status_history>>

\* The jobs the conflict model draws from: date, technician, start, end.
ConflictJobOptions ==
    { <<Some(1), Some(TheTechnician), Some(HM(8, 0)), Some(HM(12, 0))>>,
      <<Some(1), Some(TheTechnician), Some(HM(8, 0)), Some(HM(16, 0))>>,
      <<Some(1), Some(TheTechnician), Some(HM(12, 0)), Some(HM(17, 0))>>,
      <<Some(1), Some(TheTechnician), None, None>>,
      <<Some(1), Some(TheTechnician), Some(HM(9, 0)), None>>,
      <<Some(1), Some(OtherTechnician), Some(HM(8, 0)), Some(HM(16, 0))>>,
      <<Some(2), Some(TheTechnician), Some(HM(8, 0)), Some(HM(16, 0))>>,
      <<Some(1), None, Some(HM(8, 0)), Some(HM(16, 0))>>,
      <<None, Some(TheTechnician), None, None>> }

ConflictCreateJob ==
    \E o \in ConflictJobOptions :
        CreateJob(DatedJob(Len(jobs) + 1, o[1], o[2], o[3], o[4]))

RequestDates == {None, Some(1), Some(2), Unparsable}

DetectRequest ==
    \E start_date, end_date \in RequestDates : detect_conflicts(start_date, end_date)

ConflictNext ==
    \/ ConflictCreateJob
    \/ DetectRequest

\* No job stored, two technicians, no conflict recorded.
ConflictInit == CoreInit

ConflictSpec == ConflictInit /\ [][ConflictNext]_vars

\* ------------------------------------------------------------------------
\* Properties of the route optimizer (specification Spec)
\* ------------------------------------------------------------------------
RouteReturned == pc = "route_done" /\ result.op = "optimize_technician_route"
MetricsReturned == pc = "metrics_done" /\ result.op = "calculate_route_metrics"

TechnicianAt(lat, lng) ==
    /\ technicians[1].current_location_lat = lat
    /\ technicians[1].current_location_lng = lng

JobAt(id, lat, lng) == JobOf(id).latitude = lat /\ JobOf(id).longitude = lng

\* C7: with the technician at (0,0) and two jobs of the date at properties
\* (0,1) and (0,2), the returned route has the job at (0,1) before the job at
\* (0,2), in whichever order the query yielded them.
C7_NearerJobFirst ==
    ( /\ RouteReturned
      /\ TechnicianAt(Some(0), Some(0))
      /\ Len(call.jobs) = 2
      /\ \E a, b \in 1..2 :
            /\ JobAt(call.jobs[a], Some(0), Some(Deg(1)))
            /\ JobAt(call.jobs[b], Some(0), Some(Deg(2))) )
    => /\ Len(result.value) = 2
       /\ JobAt(result.value[1], Some(0), Some(Deg(1)))
       /\ JobAt(result.value[2], Some(0), Some(Deg(2)))

\* C8: when every job passed to the nearest-neighbour routing lacks property
\* coordinates, the returned route is the input list, in the input order.
AllLackCoordinates(ids) ==
    \A i \in 1..Len(ids) :
        JobOf(ids[i]).latitude = None \/ JobOf(ids[i]).longitude = None

C8_NoCoordinatesKeepsInputOrder ==
    (RouteReturned /\ AllLackCoordinates(call.jobs)) => result.value = call.jobs

C8_Witness ==
    /\ RouteReturned
    /\ Len(call.jobs) = 3
    /\ AllLackCoordinates(call.jobs)
    /\ result.value = call.jobs

\* C9: for a technician with no scheduled or in-progress job on the date the
\* route is the empty list, and the metrics of an empty job list are distance
\* 0, travel time 0, job time 0 and efficiency score 0.
NoActiveJob ==
    \A i \in 1..Len(jobs) :
        \/ jobs[i].status \notin {"scheduled", "in_progress"}
        \/ jobs[i].assigned_technician # Some(technicians[1].id)

C9_NoJobsEmptyRouteZeroMetrics ==
    /\ (RouteReturned /\ NoActiveJob) => result.value = <<>>
    /\ (MetricsReturned /\ result.jobs = <<>>) =>
          /\ result.value.total_distance_miles = 0
          /\ result.value.total_travel_time = 0
          /\ result.value.total_job_time = 0
          /\ result.value.route_efficiency_score = 0

C9_Witness ==
    /\ MetricsReturned
    /\ jobs # <<>>
    /\ NoActiveJob
    /\ result.jobs = <<>>
    /\ result.value.route_efficiency_score = 0

\* C10: the nearest-neighbour search starts from the technician's own
\* (lat, lng) pair when the technician has one and from the default pair
\* otherwise, never from a mixture of the two.
C10_StartIsOwnPairOrDefaultPair ==
    (call.op = "optimize_technician_route" /\ call.start # None) =>
        LET t == technicians[1] IN
        IF t.current_location_lat # None /\ t.current_location_lng # None
        THEN call.start = <<t.current_location_lat[1], t.current_location_lng[1]>>
        ELSE call.start = <<DEFAULT_START_LAT, DEFAULT_START_LNG>>

\* C11: for a non-empty job list the efficiency score is
\* job_time / (job_time + travel_time) * 100 (to one decimal) when the travel
\* time is positive and 100 when it is zero; every zero-distance route
\* scores 100.  A single-stop route scores 100 only when it is a
\* zero-distance route.
NearestTenth(score, num, den) ==
    /\ 2 * (score * den - num * 1000) <= den
    /\ 2 * (num * 1000 - score * den) <= den

AtStartOrNowhere(id) ==
    LET start == StartPoint(technicians[1]) IN
    \/ JobOf(id).latitude = None
    \/ JobOf(id).longitude = None
    \/ JobAt(id, Some(start[1]), Some(start[2]))

ZeroDistanceRoute == \A i \in 1..Len(result.jobs) : AtStartOrNowhere(result.jobs[i])

ScoreFollowsFormula ==
    LET m == result.value IN
    /\ m.total_travel_time > 0 =>
          NearestTenth(m.route_efficiency_score, m.total_job_time,
                       m.total_job_time + m.total_travel_time)
    /\ m.total_travel_time = 0 => m.route_efficiency_score = 1000

C11_ZeroDistanceWitness ==
    /\ MetricsReturned
    /\ Len(result.jobs) = 2
    /\ ZeroDistanceRoute
    /\ \E i \in 1..2 : JobOf(result.jobs[i]).latitude # None
    /\ result.value.route_efficiency_score = 1000

WithCoordinates ==
    { remaining_jobs[i] : i \in { n \in 1..Len(remaining_jobs) :
          /\ JobOf(remaining_jobs[n]).latitude # None
          /\ JobOf(remaining_jobs[n]).longitude # None } }

DistanceTo(id) ==
    calculate_distance(current_pos[1], current_pos[2],
                       JobOf(id).latitude[1], JobOf(id).longitude[1])

\* The job a step of the routing appends (the first, when it appends several).
Appended == optimized_route'[Len(optimized_route) + 1]

\* C20: at every step of the nearest-neighbour routing the job appended to
\* the route has the minimum distance from the current position among the
\* not-yet-routed jobs that have property coordinates, and the current
\* position then becomes that job's coordinates.
C20_AppendedJobIsNearest ==
    [][ (pc = "nn_loop" /\ WithCoordinates # {}) =>
            /\ Appended \in WithCoordinates
            /\ \A id \in WithCoordinates : DistanceTo(Appended) <= DistanceTo(id)
            /\ current_pos' = <<JobOf(Appended).latitude[1],
                                JobOf(Appended).longitude[1]>> ]_vars

Lacks(id) == JobOf(id).latitude = None \/ JobOf(id).longitude = None

\* The jobs of a list that lack property coordinates, in the list's order.
Lacking(ids) == SelectSeq(ids, Lacks)

\* C21: in every returned route all jobs that have property coordinates come
\* before all jobs that lack them, and the jobs lacking coordinates stand at
\* the end in their relative order of the input.
C21_CoordinatesFirstThenInputOrder ==
    RouteReturned =>
        /\ \A i, j \in 1..Len(result.value) :
              (Lacks(result.value[i]) /\ ~Lacks(result.value[j])) => j < i
        /\ Lacking(result.value) = Lacking(call.jobs)

\* Position of a job in the input list of the routing call.
InputIndex(id) == CHOOSE n \in 1..Len(call.jobs) : call.jobs[n] = id

\* The not-yet-routed jobs the scan compares (its `if` at the coordinates).
Compared ==
    { remaining_jobs[n] : n \in { m \in 1..Len(remaining_jobs) :
          HasCoordinates(JobOf(remaining_jobs[m])) } }

\* The candidates at the minimum distance from the current position.
TiedNearest ==
    { id \in Compared : \A other \in Compared : DistanceTo(id) <= DistanceTo(other) }

Occurrences(ids, id) == Cardinality({ n \in 1..Len(ids) : ids[n] = id })

\* C25: the returned route is a permutation of the input job list: every
\* input job appears in it exactly once and no other job appears, whether the
\* jobs have coordinates or not.
C25_RouteIsPermutationOfInput ==
    RouteReturned =>
        /\ Len(result.value) = Len(call.jobs)
        /\ \A n \in 1..Len(call.jobs) : Occurrences(result.value, call.jobs[n]) = 1
        /\ \A n \in 1..Len(result.value) : Occurrences(call.jobs, result.value[n]) = 1

\* A route of three jobs was returned for an input that mixes jobs the scan
\* compares with jobs lacking coordinates, in another order than the input's.
C25_Witness ==
    /\ RouteReturned
    /\ Len(call.jobs) = 3
    /\ \E n \in 1..3 : Lacks(call.jobs[n])
    /\ \E n \in 1..3 : HasCoordinates(JobOf(call.jobs[n]))
    /\ result.value # call.jobs

\* C30: the routing loop terminates for every finite job list: whenever the
\* loop is entered or continued there is a remaining job (so an iteration
\* can run) and route plus remaining jobs number as many as the input; each
\* iteration either ends the loop or takes one job from the remaining list
\* and appends it to the route, so the iterations made so far (the length
\* of the route) stay below the number of input jobs.
C30_LoopEndsWithinInputLength ==
    [][ /\ pc' = "nn_loop" =>
              /\ remaining_jobs' # <<>>
              /\ Len(optimized_route') + Len(remaining_jobs') = Len(call'.jobs)
        /\ pc = "nn_loop" =>
              \/ pc' = "route_done"
              \/ /\ pc' = "nn_loop"
                 /\ Len(remaining_jobs') = Len(remaining_jobs) - 1
                 /\ Len(optimized_route') = Len(optimized_route) + 1 ]_vars

\* The loop ended after as many iterations as there were input jobs (three),
\* the last of them removing the last remaining job.
C30_Witness ==
    /\ RouteReturned
    /\ Len(call.jobs) = 3
    /\ \A n \in 1..3 : HasCoordinates(JobOf(call.jobs[n]))
    /\ remaining_jobs = <<>>
    /\ Len(optimized_route) = 3

\* ------------------------------------------------------------------------
\* Properties of the route's job time (specification MetricsSpec)
\* ------------------------------------------------------------------------
\* The one duration a job contributes when a value that is set counts as
\* present, in seconds.
ContributionIfSet(job) ==
    IF job.service_type # None
    THEN job.service_type[1].estimated_duration_hours * 36
    ELSE IF job.ai_suggested_duration # None
    THEN job.ai_suggested_duration[1] * 36
    ELSE 7200

\* The one duration a job contributes when a value counts as present only if
\* it is set and not zero, in seconds.
ContributionIfPositive(job) ==
    IF job.service_type # None /\ job.service_type[1].estimated_duration_hours > 0
    THEN job.service_type[1].estimated_duration_hours * 36
    ELSE IF job.ai_suggested_duration # None /\ job.ai_suggested_duration[1] > 0
    THEN job.ai_suggested_duration[1] * 36
    ELSE 7200

RECURSIVE Total(_)
\* The sum of a list of numbers.
Total(numbers) ==
    IF numbers = <<>> THEN 0 ELSE Head(numbers) + Total(Tail(numbers))

SumIfSet(ids) == Total([n \in 1..Len(ids) |-> ContributionIfSet(JobOf(ids[n]))])
SumIfPositive(ids) == Total([n \in 1..Len(ids) |-> ContributionIfPositive(JobOf(ids[n]))])

\* C26 as stated: total job time is the sum over the jobs of the list of one
\* duration each: the service type's estimated_duration_hours when the job
\* has one, otherwise its ai_suggested_duration when set, otherwise 2 hours.
C26_JobTimeSumsFirstSetDuration ==
    (MetricsReturned /\ result.jobs # <<>>) =>
        result.value.total_job_time = SumIfSet(result.jobs)

\* C26 as amended: the same sum, a duration of 0 counting as absent.
C26_JobTimeSumsFirstPositiveDuration ==
    (MetricsReturned /\ result.jobs # <<>>) =>
        result.value.total_job_time = SumIfPositive(result.jobs)

\* Metrics were returned for three jobs, one timed by its service type, one
\* by its AI-suggested duration and one by the default.
C26_Witness ==
    /\ MetricsReturned
    /\ Len(result.jobs) = 3
    /\ \E a, b, c \in 1..3 :
          /\ JobOf(result.jobs[a]).service_type # None
          /\ JobOf(result.jobs[a]).service_type[1].estimated_duration_hours = 150
          /\ JobOf(result.jobs[a]).ai_suggested_duration = Some(250)
          /\ JobOf(result.jobs[b]).service_type = None
          /\ JobOf(result.jobs[b]).ai_suggested_duration = Some(250)
          /\ JobOf(result.jobs[c]).service_type = None
          /\ JobOf(result.jobs[c]).ai_suggested_duration = None
    /\ result.value.total_job_time = 5400 + 9000 + 7200

\* ------------------------------------------------------------------------
\* Properties of the five operations together (specification CoreSpec)
\* ------------------------------------------------------------------------
InCall == pc # "idle" \/ pc' # "idle"

SlotReturned == pc = "slot_done" /\ result.op = "suggest_optimal_time_slot"

\* The estimated duration of the job to place, in seconds.
SlotDuration == DurationHours(call.service_type) * 36

\* The time of day a returned string 'HH:MM' names, in seconds.
ReturnedTime == HM(result.value[1][1], result.value[1][2])

\* The existing jobs that have a start time, as positions of call.existing.
Timed == { i \in 1..Len(call.existing) :
             JobOf(call.existing[i]).scheduled_start_time # None }
StartAt(i) == JobOf(call.existing[i]).scheduled_start_time[1]
EndAt(i) == EndOfJob(JobOf(call.existing[i]))

EachStartsBeforeItEnds == \A i \in Timed : StartAt(i) <= EndAt(i)

\* No existing job overlaps [t, t + d).
FreeAt(t, d) == \A i \in Timed : ~(StartAt(i) < t + d /\ t < EndAt(i))

\* The work day has a free stretch of length d: one starts at 08:00 or at the
\* end of an existing job.
GapInWorkDay(d) ==
    \E t \in {WORK_START} \cup { EndAt(i) : i \in Timed } :
        WORK_START <= t /\ t + d <= WORK_END /\ FreeAt(t, d)

\* C1: when the existing jobs each have start <= end and the day contains a
\* gap of at least the job's estimated duration, a start time t is returned
\* and 08:00 <= t < 17:00.
C1_SlotWithinWorkHours ==
    (SlotReturned /\ EachStartsBeforeItEnds /\ GapInWorkDay(SlotDuration)) =>
        /\ result.value # None
        /\ WORK_START <= ReturnedTime
        /\ ReturnedTime < WORK_END

\* Each existing job starts when the previous one, in query order, ends.
BackToBack ==
    /\ Timed = 1..Len(call.existing)
    /\ \A i \in 1..(Len(call.existing) - 1) : StartAt(i + 1) = EndAt(i)

RECURSIVE SumOfDurations(_)
SumOfDurations(n) == IF n = 0 THEN 0 ELSE (EndAt(n) - StartAt(n)) + SumOfDurations(n - 1)

NineHoursBooked == BackToBack /\ SumOfDurations(Len(call.existing)) >= 9 * 3600

\* C2 as stated: no slot whenever the existing jobs are back-to-back and their
\* durations sum to 9 hours or more.
C2_BackToBackNineHoursNoSlot ==
    (SlotReturned /\ NineHoursBooked) => result.value = None

\* C2 as amended: no slot whenever the existing jobs, each with start <= end,
\* are back-to-back from 08:00 on and their durations sum to 9 hours or more.
BookedFromWorkStart ==
    /\ NineHoursBooked
    /\ EachStartsBeforeItEnds
    /\ StartAt(1) = WORK_START

C2_FullyBookedNoSlot ==
    (SlotReturned /\ BookedFromWorkStart) => result.value = None

C2_Witness ==
    /\ SlotReturned
    /\ Len(call.existing) >= 2
    /\ BookedFromWorkStart
    /\ result.value = None

\* ------------------------------------------------------------------------
\* Properties of the technician suggestion (specifications TechSpec, RankSpec)
\* ------------------------------------------------------------------------
SuggestReturned == pc = "suggest_done" /\ result.op = "suggest_technician_for_job"

TechnicianOf(id) == technicians[CHOOSE i \in 1..Len(technicians) : technicians[i].id = id]
PositionOf(id) == CHOOSE i \in 1..Len(technicians) : technicians[i].id = id
Returned == { result.value[i] : i \in 1..Len(result.value) }

\* apprentice < journeyman < master
SkillRank(skill) ==
    CASE skill = "apprentice" -> 1 [] skill = "journeyman" -> 2 [] skill = "master" -> 3

\* The level the job requires: its service type's, apprentice without one.
JobRequires ==
    IF call.job.service_type = None THEN "apprentice"
    ELSE call.job.service_type[1].skill_level_required

\* C3: no returned technician has a skill level strictly below the level the
\* job requires.
C3_NoTechnicianBelowRequiredSkill ==
    SuggestReturned =>
        \A id \in Returned :
            SkillRank(TechnicianOf(id).skill_level) >= SkillRank(JobRequires)

C3_Witness ==
    /\ SuggestReturned
    /\ JobRequires = "master"
    /\ Returned # {}
    /\ \E i, j \in 1..Len(technicians) :
          /\ technicians[i].skill_level = "apprentice"
          /\ technicians[j].skill_level = "journeyman"

\* C4: every returned technician is available, and for an emergency job every
\* returned technician has emergency availability.
C4_ReturnedAvailableAndEmergencyReady ==
    SuggestReturned =>
        \A id \in Returned :
            /\ TechnicianOf(id).is_available
            /\ call.job.priority = "emergency" =>
                   TechnicianOf(id).emergency_availability

C4_Witness ==
    /\ SuggestReturned
    /\ call.job.priority = "emergency"
    /\ Returned # {}
    /\ \A id \in Returned : TechnicianOf(id).emergency_availability

\* The technicians the candidate query is to yield for the job.
Eligible ==
    { technicians[i].id : i \in
        { k \in 1..Len(technicians) :
            /\ SkillRank(technicians[k].skill_level) >= SkillRank(JobRequires)
            /\ technicians[k].is_available
            /\ call.job.priority = "emergency" => technicians[k].emergency_availability } }

ScoreOf(id) ==
    LET sc == result.scored_candidates
    IN sc[CHOOSE i \in 1..Len(sc) : sc[i][1] = id][2]

\* a comes before b in the descending stable order.
RanksBefore(a, b) ==
    \/ ScoreOf(a) > ScoreOf(b)
    \/ ScoreOf(a) = ScoreOf(b) /\ PositionOf(a) < PositionOf(b)

\* C5: the result is the first 5 (all, if fewer) of the eligible candidates in
\* non-increasing score order, equal scores in query order; no candidate left
\* out has a higher score than a returned one.
C5_TopFiveByStableDescendingScore ==
    SuggestReturned =>
        LET S == result.value
            sc == result.scored_candidates
        IN /\ { sc[i][1] : i \in 1..Len(sc) } = Eligible
           /\ Len(sc) = Cardinality(Eligible)
           /\ Len(S) = Min2(5, Cardinality(Eligible))
           /\ \A i, j \in 1..Len(S) : i < j => RanksBefore(S[i], S[j])
           /\ \A e \in Eligible \ Returned : \A i \in 1..Len(S) :
                 /\ RanksBefore(S[i], e)
                 /\ ScoreOf(e) <= ScoreOf(S[i])

C5_Witness ==
    /\ SuggestReturned
    /\ Cardinality(Eligible) > 5
    /\ Len(result.value) = 5
    /\ ScoreOf(result.value[1]) > ScoreOf(result.value[2])
    /\ ScoreOf(result.value[4]) = ScoreOf(result.value[5])
    /\ \E e \in Eligible \ Returned : ScoreOf(e) = ScoreOf(result.value[5])

\* The four bonuses as the claim states them.
ClaimedSkill(tech) ==
    IF tech.skill_level = JobRequires THEN 10
    ELSE IF tech.skill_level = "master" THEN 5 ELSE 0

ClaimedSpecialty(tech) ==
    IF call.job.service_type # None /\ call.job.service_type[1].id \in tech.specialties
    THEN 15 ELSE 0

CoordinatesKnown(tech) ==
    /\ tech.current_location_lat # None /\ tech.current_location_lng # None
    /\ call.job.latitude # None /\ call.job.longitude # None

ClaimedProximity(tech) ==
    IF CoordinatesKnown(tech)
    THEN LET d == calculate_distance(tech.current_location_lat[1],
                                     tech.current_location_lng[1],
                                     call.job.latitude[1], call.job.longitude[1])
         IN IF d <= 5000 THEN 10 ELSE IF d <= 15000 THEN 5 ELSE 0
    ELSE 0

ClaimedWorkload(tech) ==
    LET n == Cardinality({ i \in 1..Len(jobs) :
                             /\ jobs[i].assigned_technician = Some(tech.id)
                             /\ jobs[i].status \in {"scheduled", "in_progress"} })
    IN IF n = 0 THEN 10 ELSE IF n <= 2 THEN 5 ELSE 0

\* C6: the score of each candidate is the sum of the skill, specialty,
\* proximity and workload bonuses, the proximity bonus given whenever both
\* pairs of coordinates are known.
C6_ScoreIsSumOfFourBonuses ==
    SuggestReturned =>
        \A i \in 1..Len(result.scored_candidates) :
            LET tech == TechnicianOf(result.scored_candidates[i][1])
            IN result.scored_candidates[i][2] =
                   ClaimedSkill(tech) + ClaimedSpecialty(tech)
                     + ClaimedProximity(tech) + ClaimedWorkload(tech)

\* The existing jobs with a start and an end time, as positions of
\* call.existing.
Booked == { i \in Timed : JobOf(call.existing[i]).scheduled_end_time # None }

\* [t, t + d) and the i-th existing job's [start, end) have a moment in common.
Overlaps(i, t, d) ==
    /\ StartAt(i) < EndAt(i)
    /\ StartAt(i) < t + d
    /\ t < EndAt(i)

\* C19: a returned start time t for a job of estimated duration d is such
\* that [t, t + d) overlaps no existing scheduled or in-progress job of the
\* technician on the date, whenever every existing job has start <= end,
\* jobs that overlap each other included.
C19_ReturnedSlotOverlapsNoJob ==
    ( /\ SlotReturned
      /\ result.value # None
      /\ \A i \in Booked : StartAt(i) <= EndAt(i) )
    => \A i \in Booked : ~Overlaps(i, ReturnedTime, SlotDuration)

\* The times at which a free stretch can begin: 08:00 and the end of each job.
GapStarts == {WORK_START} \cup { EndAt(i) : i \in Timed }

\* C23: a returned start time t is the start of the first sufficient gap in
\* chronological order: a slot of the job's estimated duration fits between
\* the existing jobs at t, and at no earlier time t' >= 08:00.
C23_FirstSufficientGap ==
    (SlotReturned /\ result.value # None) =>
        /\ FreeAt(ReturnedTime, SlotDuration)
        /\ \A t \in GapStarts :
              (WORK_START <= t /\ t < ReturnedTime) => ~FreeAt(t, SlotDuration)

\* The part of C23 that the scan keeps: no sufficient gap begins at or after
\* 08:00 and before the returned time.
C23_NoEarlierGap ==
    (SlotReturned /\ result.value # None) =>
        \A t \in GapStarts :
            (WORK_START <= t /\ t < ReturnedTime) => ~FreeAt(t, SlotDuration)

\* C24: a returned start time t for a job of estimated duration d ends within
\* the work day, t + d <= 17:00, also when the gap lies before an existing job
\* that starts after 17:00.
C24_SlotEndsWithinWorkDay ==
    (SlotReturned /\ result.value # None) =>
        ReturnedTime + SlotDuration <= WORK_END

\* ------------------------------------------------------------------------
\* Properties of the complexity estimate (specification ComplexitySpec)
\* ------------------------------------------------------------------------
ComplexityReturned ==
    pc = "complexity_done" /\ result.op = "estimate_job_complexity"

\* C12: for every job (any service-type name, priority and description)
\* estimate_job_complexity returns an integer c with 1 <= c <= 10.
C12_ComplexityBetweenOneAndTen ==
    ComplexityReturned => result.value \in 1..10

\* The highest score before rounding, 10.5, is returned as 10.
C12_Witness ==
    /\ ComplexityReturned
    /\ result.complexity = 105
    /\ result.value = 10

\* C13: before rounding and clamping the score is 5 plus every one of the
\* adjustments whose condition holds: +2 for a service-type name containing
\* 'panel' or 'upgrade', +1 for one containing 'emergency', -1 for one
\* containing 'outlet', +1 for priority emergency, +0.5 for priority high,
\* +0.5 for each complexity keyword and -0.3 for each simplicity keyword in
\* the description.
NameHas(keyword) ==
    /\ call.job.service_type # None
    /\ \E w \in call.job.service_type[1].name : keyword \in Substrings[LowerCase[w]]

DescriptionHas(keyword) ==
    \E w \in call.job.description : keyword \in Substrings[LowerCase[w]]

When(condition, tenths) == IF condition THEN tenths ELSE 0

SumOfAdjustments ==
    When(NameHas("panel") \/ NameHas("upgrade"), 20)
    + When(NameHas("emergency"), 10)
    + When(NameHas("outlet"), -10)
    + When(call.job.priority = "emergency", 10)
    + When(call.job.priority = "high", 5)
    + When(DescriptionHas("rewire"), 5) + When(DescriptionHas("panel"), 5)
    + When(DescriptionHas("upgrade"), 5) + When(DescriptionHas("troubleshoot"), 5)
    + When(DescriptionHas("repair"), 5)
    + When(DescriptionHas("outlet"), -3) + When(DescriptionHas("switch"), -3)
    + When(DescriptionHas("fixture"), -3) + When(DescriptionHas("install"), -3)

C13_ScoreIsFivePlusEveryAdjustment ==
    ComplexityReturned => result.complexity = 50 + SumOfAdjustments

\* ------------------------------------------------------------------------
\* Properties of the rate-limit counter (specification RateSpec)
\* ------------------------------------------------------------------------
\* The calls made so far for one counter, in order.
CallsFor(identifier, window) ==
    SelectSeq(log, LAMBDA e : /\ e.op = "check_rate_limit"
                              /\ e.identifier = identifier
                              /\ e.window = window)

InsideWindow(calls, k) == calls[k].time - calls[1].time < calls[1].window

Limited(request) ==
    ~StartsWith(request.path, <<"admin">>) /\ ~StartsWith(request.path, <<"static">>)

ClassOf(request) ==
    IF StartsWith(request.path, <<"api", "auth">>) THEN "auth" ELSE "other"

ClassLimit(class) == IF class = "auth" THEN 5 ELSE 100

\* The requests of the k-th request's client and class let through before it
\* (no time passes in LimitSpec: all of them are in the window).
LetThroughBefore(k) ==
    Cardinality({ j \in 1..(k - 1) :
                    /\ Limited(log[j].request)
                    /\ log[j].ip = log[k].ip
                    /\ ClassOf(log[j].request) = ClassOf(log[k].request)
                    /\ log[j].response = None })

Rejected(k) == log[k].response = Some(429)

\* C16: a request to a path outside /admin/ and /static/ is answered 429
\* exactly when its client IP has already had 5 requests let through in the
\* window for an /api/auth/ path, 100 for another path, the requests counted
\* being those of the same class; a rejected request does not increase the
\* counter.
C16_RejectedExactlyAtClassLimit ==
    \A k \in 1..Len(log) :
        Limited(log[k].request) =>
            /\ Rejected(k) <=> LetThroughBefore(k) >= ClassLimit(ClassOf(log[k].request))
            /\ Rejected(k) => log[k].count_after = log[k].count_before

\* ------------------------------------------------------------------------
\* Properties of the permission middleware (specification PermissionSpec)
\* ------------------------------------------------------------------------
PermissionReturned ==
    pc = "permission_done" /\ result.op = "APIPermissionMiddleware"

\* A request to /api/<resource>/... outside /api/auth/.
ToResource ==
    /\ Len(call.request.path) >= 2
    /\ call.request.path[1] = "api"
    /\ call.request.path[2] # "auth"

ClaimedPermission ==
    CASE call.request.method = "GET" -> "read"
      [] call.request.method = "POST" -> "create"
      [] call.request.method \in {"PUT", "PATCH"} -> "update"
      [] call.request.method = "DELETE" -> "delete"

\* The role list holds '*', '<resource>.<permission>' or '<resource>.*', the
\* resource being the path segment after /api/.
RoleListAllows ==
    LET perms == RolePerms(UserRole(call.request.user[1]))
        resource == SplitDots[call.request.path[2]]
    IN \/ <<"*">> \in perms
       \/ resource \o <<ClaimedPermission>> \in perms
       \/ resource \o <<"*">> \in perms

RoleIs(role) == call.request.user # None /\ call.request.user[1].role = role

\* C17: a request to /api/<resource>/... outside /api/auth/ is answered 401
\* for an anonymous user; otherwise it is let through exactly when the
\* user's role list holds '*', '<resource>.<permission>' or '<resource>.*'
\* (permission read, create, update, delete for GET, POST, PUT or PATCH,
\* DELETE) and answered 403 in every other case; so admin passes every
\* request, a technician is denied every DELETE and a customer every POST,
\* PUT, PATCH and DELETE.
C17_LetThroughExactlyWhenRoleListAllows ==
    (PermissionReturned /\ ToResource /\ call.request.method # "HEAD") =>
        /\ call.request.user = None => result.value = Some(401)
        /\ call.request.user # None =>
              /\ result.value = None <=> RoleListAllows
              /\ result.value # None => result.value = Some(403)
        /\ RoleIs("admin") => result.value = None
        /\ (RoleIs("technician") /\ call.request.method = "DELETE") =>
              result.value = Some(403)
        /\ (RoleIs("customer") /\ call.request.method # "GET") =>
              result.value = Some(403)

\* ------------------------------------------------------------------------
\* Properties of cache_function (specification FunctionSpec)
\* ------------------------------------------------------------------------
\* The earlier calls with the arguments of the k-th call that ran the
\* function.
EarlierRuns(k) ==
    { j \in 1..(k - 1) : log[j].args = log[k].args /\ log[j].ran }

LastRun(k) == CHOOSE j \in EarlierRuns(k) : \A i \in EarlierRuns(k) : i <= j

\* The entry the last such run stored has not timed out at the k-th call.
EntryLive(k) == log[k].time - log[LastRun(k)].time < FUNC_TIMEOUT

\* C18: a call with the arguments of an earlier call whose cache entry is
\* live returns that call's result without running the function, and a call
\* with arguments no earlier call had runs the function.
C18_RunsOncePerArgumentTuple ==
    \A k \in 1..Len(log) :
        /\ (EarlierRuns(k) # {} /\ EntryLive(k)) =>
               ~log[k].ran /\ log[k].value = log[LastRun(k)].value
        /\ (\A j \in 1..(k - 1) : log[j].args # log[k].args) => log[k].ran


\* ------------------------------------------------------------------------
\* Properties of interleaved rate-limit calls (specification RaceSpec)
\* ------------------------------------------------------------------------
\* The calls for a counter that returned allowed = True; the clock does not
\* move in RaceSpec, so all of them fall within one window.
AllowedCalls(identifier, limit, window) ==
    { i \in 1..Len(log) : /\ log[i].identifier = identifier
                          /\ log[i].limit = limit
                          /\ log[i].window = window
                          /\ log[i].allowed }

\* C27: when several check_rate_limit calls for the same identifier and
\* window run interleaved, the calls that return allowed = True within one
\* window are never more than limit.
C27_AllowedWithinLimitWhenInterleaved ==
    \A lw \in RateLimits :
        Cardinality(AllowedCalls("test_user", lw[1], lw[2])) <= lw[1]


\* ------------------------------------------------------------------------
\* Properties of the status history (specification HistorySpec)
\* ------------------------------------------------------------------------
\* The history entries of a job, in creation order.
HistoryOf(id) == SelectSeq(status_history, LAMBDA e : e.job = id)

\* The entries of each job form a chain that ends at the job's status.
HistoryIsChain ==
    \A i \in 1..Len(jobs) :
        LET h == HistoryOf(jobs[i].id) IN
        /\ \A k \in 2..Len(h) : h[k].old_status = h[k - 1].new_status
        /\ h # <<>> => h[Len(h)].new_status = jobs[i].status

\* The status of a job after the step.
StatusAfter(id) == jobs'[RowOf(id)].status

\* A step adds at most one entry, whose old_status is the job's status before
\* the call and whose new_status is its status after; a status changes only
\* with an entry.
EntryRecordsTheStep ==
    /\ status_history' # status_history =>
          /\ Len(status_history') = Len(status_history) + 1
          /\ SubSeq(status_history', 1, Len(status_history)) = status_history
          /\ LET e == status_history'[Len(status_history')] IN
             /\ e.old_status = JobOf(e.job).status
             /\ e.new_status = StatusAfter(e.job)
    /\ \A i \in 1..Len(jobs) :
          jobs'[i].status # jobs[i].status =>
              /\ Len(status_history') = Len(status_history) + 1
              /\ status_history'[Len(status_history')].job = jobs[i].id

\* The step is an update_status call that names the job's current status.
NamesCurrentStatus ==
    /\ call'.op = "update_status"
    /\ call'.status = Some(JobOf(call'.job).status)
    /\ <<call, result>> # <<call', result'>>

\* C28: after any sequence of update_status and assign_technician calls a
\* job's history entries in creation order form a chain: each entry's
\* old_status is the job's status just before the call that created it and
\* its new_status the status just after, each entry's old_status equals the
\* previous entry's new_status, the last entry's new_status is the job's
\* current status, and an update_status call that names the current status
\* creates no entry.
C28_StatusHistoryIsChain ==
    /\ []HistoryIsChain
    /\ [][ /\ EntryRecordsTheStep
           /\ NamesCurrentStatus => status_history' = status_history ]_vars

\* Job 1 was assigned while pending (entry pending -> scheduled), job 2 got
\* an entry after it, and the last call, an update_status of job 1 naming
\* its current status, was answered 200 and added nothing.
C28_Witness ==
    /\ Len(status_history) = 2
    /\ status_history[1] = NewStatusHistory(1, "pending", "scheduled",
                                             <<"Assigned to", TheTechnician>>)
    /\ status_history[2].job = 2
    /\ call.op = "update_status"
    /\ call.job = 1
    /\ call.status = Some("scheduled")
    /\ JobOf(1).status = "scheduled"
    /\ result.code = HTTP_200_OK


\* ------------------------------------------------------------------------
\* Properties of the conflict detection (specification ConflictSpec)
\* ------------------------------------------------------------------------
\* The last request was a detect_conflicts run over a date range, and the
\* jobs are as that run read them.
AfterRun ==
    /\ call.op = "detect_conflicts"
    /\ call.start_date # Unparsable
    /\ call.end_date # Unparsable
    /\ call.table = jobs

RunFirst == IF call.start_date = None THEN TODAY ELSE call.start_date[1]
RunLast == IF call.end_date = None THEN RunFirst + RANGE_DAYS ELSE call.end_date[1]

\* Two jobs of one technician on one date whose times have a moment in common.
JobsOverlap(a, b) ==
    /\ a.id # b.id
    /\ a.assigned_technician # None
    /\ a.assigned_technician = b.assigned_technician
    /\ a.scheduled_date # None
    /\ a.scheduled_date = b.scheduled_date
    /\ a.scheduled_start_time # None /\ a.scheduled_end_time # None
    /\ b.scheduled_start_time # None /\ b.scheduled_end_time # None
    /\ a.scheduled_start_time[1] < b.scheduled_end_time[1]
    /\ b.scheduled_start_time[1] < a.scheduled_end_time[1]

\* The job_overlap rows of a job for its technician and date.
OverlapRows(job) ==
    { i \in 1..Len(conflicts) :
          /\ conflicts[i].conflict_type = "job_overlap"
          /\ conflicts[i].job = job.id
          /\ Some(conflicts[i].technician) = job.assigned_technician
          /\ Some(conflicts[i].conflict_date) = job.scheduled_date }

AtMostOnePerJob ==
    \A i \in 1..Len(jobs) : Cardinality(OverlapRows(jobs[i])) <= 1

OnePerOverlappingJob ==
    AfterRun =>
        \A i \in 1..Len(jobs) :
            ( /\ jobs[i].scheduled_date # None
              /\ jobs[i].scheduled_date[1] >= RunFirst
              /\ jobs[i].scheduled_date[1] <= RunLast
              /\ \E k \in 1..Len(jobs) : JobsOverlap(jobs[i], jobs[k]) )
            => Cardinality(OverlapRows(jobs[i])) = 1

\* A run over the range of the run before it, the jobs unchanged, creates no
\* row.
SecondRunCreatesNothing ==
    ( /\ AfterRun
      /\ jobs' = jobs
      /\ call'.op = "detect_conflicts"
      /\ call'.start_date = call.start_date
      /\ call'.end_date = call.end_date )
    => conflicts' = conflicts

\* C29: detect_conflicts is idempotent: a second run over the same date range
\* with unchanged jobs creates no conflict record; after any number of runs
\* there is at most one job_overlap conflict per (job, technician, date), and
\* exactly one for every job in the range that overlaps another job of the
\* same technician on the same date.
C29_DetectConflictsIdempotent ==
    /\ [](AtMostOnePerJob /\ OnePerOverlappingJob)
    /\ [][SecondRunCreatesNothing]_vars

\* The parts of C29 that hold: no second row for a job, and nothing new from
\* a repeated run.
C29_NeverTwoRowsNorNewOnRepeat ==
    /\ []AtMostOnePerJob
    /\ [][SecondRunCreatesNothing]_vars

\* C29 for runs that reached the end of their loop.
C29_CompletedRunRecordsEveryOverlap ==
    (AfterRun /\ result.code = HTTP_200_OK) =>
        \A i \in 1..Len(jobs) :
            ( /\ jobs[i].scheduled_date # None
              /\ jobs[i].scheduled_date[1] >= RunFirst
              /\ jobs[i].scheduled_date[1] <= RunLast
              /\ \E k \in 1..Len(jobs) : JobsOverlap(jobs[i], jobs[k]) )
            => Cardinality(OverlapRows(jobs[i])) = 1
====
